---- MODULE Spec2Model ----
(***************************************************************************)
(* Model of the ipinfo worker's aggregation-and-caching engine:            *)
(*   - MemoryCache (cacheUtils): a Map of {data, timestamp, ttl} entries   *)
(*     with lazy expiry on get and a cleanup pass on set;                  *)
(*   - cachedFetch and EnhancedIPService.fetchIPInfoData(Cached);          *)
(*   - the reconciliation of edge metadata with the lookup result          *)
(*     (combineData, the focused views, assessThreatLevel,                 *)
(*     assessConnectionQuality) and the four top-level operations.         *)
(* A Map is modelled as the sequence of its entries in insertion order,    *)
(* which is the order Map.entries() iterates in.                           *)
(***************************************************************************)
EXTENDS Integers, Sequences, FiniteSets, TLC

\* ------------------------------------------------------------------ bounds
\* Date.now() ranges over 0..MaxTime in the MemoryCache specifications.
MaxTime == 2

\* JavaScript null: what get returns for "no entry" and what a failed lookup yields.
\* Every other value is a record (an object) with other fields.
Null == [null |-> TRUE]

\* Inputs of the MemoryCache specifications.
Keys == {"k1", "k2"}
Values == {[v |-> 1], [v |-> 2]}
TTLs == {0, 1}
Capacities == {1, 2}

\* Inputs of the eviction specification: enough keys to fill a cache whose
\* 20% is at least one entry.
ManyKeys == {"k1", "k2", "k3", "k4", "k5"}
ReadKeys == {"k1", "k2"}
OneValue == {[v |-> 1]}
EvictTTLs == {1}
EvictCapacities == {5}

\* Inputs of the overflow specification: a capacity whose 20% rounds down to zero.
SmallCapacities == {1, 4}

\* CACHE_TTL, in milliseconds, and the capacities of the two global caches.
ENHANCED_IP == 300000
GEOLOCATION == 600000
IPINFO_DATA == 600000
IpinfoMaxEntries == 500
EnhancedMaxEntries == 200
\* AnalyticsService.maxEntries
AnalyticsMaxEntries == 1000

\* Inputs of the lookup specification. At most MaxLookups top-level operations
\* are started in a run; Requests are the invocations that may be in progress at
\* the same time; Instants are the values Date.now() takes.
MaxLookups == 2
Requests == {"r1", "r2"}
ValidIPs == {"8.8.8.8"}
InvalidIPs == {""}
Ops == {"enhanced", "geolocation", "security", "network"}
Outcomes == {"error", "notok", "ok"}
Bodies == {[body |-> "A"], [body |-> "B"]}
Unparsable == [unparsable |-> TRUE]
Instants == {0, 300001, 600001}

\* JavaScript undefined, where an object may stand (the privacy block of a lookup result).
Undefined == [undefined |-> TRUE]

\* An object is the function from its property names to their values; a property
\* that is undefined is not in the domain; {} is the empty function.
EmptyObject == <<>>

\* the objects made of at most the property name, with a value of vals
Field(name, vals) == {EmptyObject} \cup {name :> v : v \in vals}

\* Inputs of the reconciliation specification: request.cf objects and lookup results.
BotScores == {0, 20, 29, 30, 49, 50, 79, 80, 85}
Rtts == {0, 30, 49, 50, 99, 100}
Protocols == {"HTTP/3", "HTTP/2", "HTTP/1.1", "HTTP/1.0"}
TlsVersions == {"TLSv1.3", "TLSv1.2", "TLSv1.1"}
EdgeCoordinates ==
  {EmptyObject, [latitude |-> "37.751", longitude |-> "-97.822"],
   [latitude |-> "0", longitude |-> "-97.822"]}
Locs == {"37.386,-122.084", "0,0"}

\* request.cf objects that vary in what location and threat are computed from
GeoThreatEdges ==
  {c @@ p @@ b : c \in Field("country", {"US"}), p \in EdgeCoordinates,
                 b \in Field("botManagement",
                             {[score |-> s, verifiedBot |-> FALSE] : s \in BotScores})}

\* request.cf objects that vary in what connection quality is computed from
ConnectionEdges ==
  {[colo |-> "SJC"] @@ h @@ t @@ r : h \in Field("httpProtocol", Protocols),
                                     t \in Field("tlsVersion", TlsVersions),
                                     r \in Field("clientTcpRtt", Rtts)}

PrivacyBlocks == [vpn : BOOLEAN, proxy : BOOLEAN, tor : BOOLEAN, hosting : BOOLEAN]

\* lookup results: null, or the parsed body with or without country, loc and privacy
ExternalInputs ==
  {Null} \cup {[ip |-> "8.8.8.8"] @@ c @@ l @@ p :
                 c \in Field("country", {"US"}), l \in Field("loc", Locs),
                 p \in Field("privacy", PrivacyBlocks)}

\* request.cf objects and lookup results that vary in the location fields both
\* sources can name (the lookup result calls the postal code "postal")
PlaceEdges ==
  {c @@ r @@ t @@ z @@ p :
     c \in Field("country", {"US"}), r \in Field("region", {"California"}),
     t \in Field("city", {"Mountain View"}), z \in Field("timezone", {"America/Los_Angeles"}),
     p \in Field("postalCode", {"94043"})}

PlaceExternals ==
  {Null} \cup {[ip |-> "8.8.8.8"] @@ c @@ r @@ t @@ z @@ p :
                 c \in Field("country", {"DE"}), r \in Field("region", {"Bavaria"}),
                 t \in Field("city", {"Munich"}), z \in Field("timezone", {"Europe/Berlin"}),
                 p \in Field("postal", {"80331"})}

\* request.cf objects with and without an AS number, and lookup results whose asn
\* block is complete or has no asn string
AsnEdges == Field("asn", {15169})

AsnExternals ==
  {[ip |-> "8.8.8.8", asn |-> a] :
     a \in {[asn |-> "AS15169", name |-> "Google LLC", type |-> "hosting"],
            [name |-> "Google LLC"]}}

ReconcileInputs ==
  (GeoThreatEdges \X ExternalInputs) \cup (ConnectionEdges \X {Null})
  \cup (PlaceEdges \X PlaceExternals) \cup (AsnEdges \X AsnExternals)

\* Inputs of the serving specification: two requests' cf objects, and the bodies
\* ipinfo.io may answer with (the second has an asn block without an asn string).
EdgeSJC ==
  [country |-> "US", colo |-> "SJC", httpProtocol |-> "HTTP/3", tlsVersion |-> "TLSv1.3",
   clientTcpRtt |-> 30, asn |-> 15169, latitude |-> "37.751", longitude |-> "-97.822",
   botManagement |-> [score |-> 85, verifiedBot |-> FALSE]]
EdgeLHR ==
  [colo |-> "LHR", httpProtocol |-> "HTTP/1.1", regionCode |-> "ENG",
   botManagement |-> [score |-> 20, verifiedBot |-> TRUE]]
ServeEdges == {EdgeSJC, EdgeLHR}
LookupEdges == {[colo |-> "SJC"]}
GoodBody ==
  [ip |-> "8.8.8.8", country |-> "US", loc |-> "37.386,-122.084", org |-> "AS15169 Google LLC",
   privacy |-> [vpn |-> FALSE, proxy |-> FALSE, tor |-> FALSE, hosting |-> TRUE]]
MalformedBody == [ip |-> "8.8.8.8", asn |-> [name |-> "Google LLC"]]
ServeBodies == {GoodBody, MalformedBody}
ServeInstants == {300001}

\* Inputs of the cache-key specification: the namespaces that share enhancedCache,
\* IPv4 and IPv6 addresses, and the qualifiers generateCacheKey may be given.
Namespaces == {"enhanced", "geolocation"}
IPv6s == {"2001:db8::1", "::1"}
KeyIPs == ValidIPs \cup IPv6s
Qualifiers == {"", "v2", "8.8.8.8"}

\* Inputs of the request-log specification: the number of requests recorded
\* before, the operations recorded, the methods, the analytics paths (a pathname
\* is the sequence of its segments: "/analytics/clear" is <<"analytics", "clear">>)
\* and the query strings of /analytics/recent.
LogLengths == {0, 3, 199, 200, 201, 250, 999, 1000}
RecordedOps == {"enhanced", "geolocation"}
Methods == {"GET", "POST", "OPTIONS", "DELETE"}
AnalyticsPaths ==
  {<<"analytics">>, <<"analytics", "recent">>, <<"analytics", "health">>,
   <<"analytics", "clear">>, <<"analytics", "other">>}
Queries == Field("limit", {"0", "-5", "abc", "10", "200", "201", "1000"})
NoQuery == {EmptyObject}

\* Inputs of the worker specification: the pathnames requested ("/" is <<>>), and
\* the client address the CF-Connecting-IP header gives, if any.
WorkerPaths ==
  {<<>>, <<"docs">>, <<"x">>, <<"ip">>, <<"me">>, <<"status">>,
   <<"v1", "analytics", "clear">>} \cup AnalyticsPaths
OwnIPPaths == {<<"x">>, <<"ip">>, <<"me">>}
ClientIPs == ValidIPs \cup {"unknown"}
WorkerOutcomes == {"ok", "error"}
WorkerBodies == {GoodBody}

\* the inputs combineData is run on more than once, and the request ids it is given
RepeatInputs == (AsnEdges \X AsnExternals) \cup (ServeEdges \X {Null, GoodBody})
RequestIds == {"req_0_a1", "req_0_b2"}

VARIABLES
  now,           \* Date.now()
  maxEntries,    \* MemoryCache.maxEntries of the instance under test
  cache,         \* MemoryCache.cache of the instance under test
  cacheNoReads,  \* the same instance in a second run that skips the reads of live entries
  last,          \* the last operation on the instance, its arguments and what it returned
  ipinfoCache,   \* cacheUtils ipinfoCache.cache
  enhancedCache, \* cacheUtils enhancedCache.cache
  reqs,          \* the top-level operations in progress: where each one stands
  outbound,      \* per IP, the number of fetch() calls issued to ipinfo.io
  analyticsData, \* globalAnalytics.analyticsData
  started,       \* the number of top-level operations started so far
  returned,      \* the last top-level operation that returned: its arguments and its result
  edge,          \* reconciliation on its own: the request.cf object
  external,      \* reconciliation on its own: the lookup result
  view,          \* reconciliation on its own: the function applied last and its result
  previous       \* reconciliation on its own: what view was before the last combineData

cacheVars == <<maxEntries, cache, cacheNoReads, last>>

serviceVars == <<ipinfoCache, enhancedCache, reqs, outbound, analyticsData, started, returned>>

reconcileVars == <<edge, external, view, previous>>

\* ------------------------------------------------------------ Map helpers
MapHas(c, k) == \E i \in 1..Len(c) : c[i].key = k

MapGet(c, k) == c[CHOOSE i \in 1..Len(c) : c[i].key = k]

MapDelete(c, k) == SelectSeq(c, LAMBDA e : e.key # k)

\* (variant: an existing key's entry is updated in place and keeps its timestamp)
MapSetKeepsTimestamp(c, k, e) ==
  IF MapHas(c, k)
    THEN [i \in 1..Len(c) |->
            IF c[i].key = k THEN [e EXCEPT !.timestamp = c[i].timestamp] ELSE c[i]]
    ELSE Append(c, e)

\* Map.set: an existing key keeps its place in the iteration order, a new one is appended.
MapSet(c, k, e) ==
  IF MapHas(c, k)
    THEN [i \in 1..Len(c) |-> IF c[i].key = k THEN e ELSE c[i]]
    ELSE Append(c, e)

MapKeys(c) == {c[i].key : i \in 1..Len(c)}

\* ------------------------------------------------------------ MemoryCache
\* (variant: an entry expires as soon as its age reaches its ttl)
IsExpiredAtTtl(e, t) == t - e.timestamp >= e.ttl

\* now - entry.timestamp > entry.ttl
IsExpired(e, t) == t - e.timestamp > e.ttl

\* (variant: an expired entry is reported absent but left in the store)
MemoryGetKeepsExpired(c, k, t) ==
  IF ~MapHas(c, k) THEN [cache |-> c, ret |-> Null]
  ELSE IF IsExpired(MapGet(c, k), t) THEN [cache |-> c, ret |-> Null]
  ELSE [cache |-> c, ret |-> MapGet(c, k).data]

\* (variant: a hit refreshes the entry's timestamp, as a least-recently-used cache would)
MemoryGetTouch(c, k, t) ==
  IF ~MapHas(c, k) THEN [cache |-> c, ret |-> Null]
  ELSE IF IsExpired(MapGet(c, k), t) THEN [cache |-> MapDelete(c, k), ret |-> Null]
  ELSE [cache |-> [i \in 1..Len(c) |->
                     IF c[i].key = k THEN [c[i] EXCEPT !.timestamp = t] ELSE c[i]],
        ret |-> MapGet(c, k).data]

\* get(key): [cache |-> the store afterwards, ret |-> the value returned]
MemoryGet(c, k, t) ==
  IF ~MapHas(c, k) THEN [cache |-> c, ret |-> Null]
  ELSE IF IsExpired(MapGet(c, k), t) THEN [cache |-> MapDelete(c, k), ret |-> Null]
  ELSE [cache |-> c, ret |-> MapGet(c, k).data]

\* Array.prototype.sort with (a, b) => a.timestamp - b.timestamp is stable:
\* entries of equal timestamp stay in Map order.
RECURSIVE InsertByTimestamp(_, _)
InsertByTimestamp(s, e) ==
  IF s = <<>> THEN <<e>>
  ELSE IF Head(s).timestamp <= e.timestamp
    THEN <<Head(s)>> \o InsertByTimestamp(Tail(s), e)
    ELSE <<e>> \o s

RECURSIVE SortByTimestamp(_)
SortByTimestamp(c) ==
  IF c = <<>> THEN <<>>
  ELSE InsertByTimestamp(SortByTimestamp(SubSeq(c, 1, Len(c) - 1)), c[Len(c)])

\* Math.floor(this.maxEntries * 0.2)
RemoveCount(cap) == cap \div 5

\* entries.slice(0, n): the keys of the first n entries
SliceKeys(s, n) == {s[i].key : i \in 1..(IF n < Len(s) THEN n ELSE Len(s))}

\* cleanup(): drop the expired entries; if the store is still full, drop the oldest ones.
Cleanup(c, cap, t) ==
  LET kept == SelectSeq(c, LAMBDA e : ~IsExpired(e, t))
  IN IF Len(kept) >= cap
       THEN LET toRemove == SliceKeys(SortByTimestamp(kept), RemoveCount(cap))
            IN SelectSeq(kept, LAMBDA e : e.key \notin toRemove)
       ELSE kept

\* set(key, data, ttlMs)
MemorySet(c, cap, k, d, ttl, t) ==
  LET room == IF Len(c) >= cap THEN Cleanup(c, cap, t) ELSE c
  IN MapSet(room, k, [key |-> k, data |-> d, timestamp |-> t, ttl |-> ttl])

\* delete(key): Map.delete
MemoryDelete(c, k) == MapDelete(c, k)

\* (variant: clear leaves the entries where they are)
MemoryClearKeepsEntries(c) == c

\* clear(): Map.clear
MemoryClear(c) == <<>>

\* getStats().size
StatsSize(c) == Len(c)

\* the keys a set drops before it inserts
EvictedBy(c, cap, t) ==
  IF Len(c) >= cap THEN MapKeys(c) \ MapKeys(Cleanup(c, cap, t)) ELSE {}

\* --------------------------------------------------- MemoryCache actions
\* last: op, its arguments (key, data, ttl), the data stored under key when it began
\* (old), what get returned (ret), whether set found the store full, the keys set
\* dropped before inserting in this run and in the run without reads, and the key
\* of the live entry read by the operation just before a set (prevRead).
NoOp == [op |-> "none", key |-> "", data |-> Null, ttl |-> 0, old |-> Null, ret |-> Null,
         full |-> FALSE, evicted |-> {}, evictedNoReads |-> {}, prevRead |-> ""]

OldData(c, k) == IF MapHas(c, k) THEN MapGet(c, k).data ELSE Null

CacheInit(caps) ==
  /\ now = 0
  /\ maxEntries \in caps
  /\ cache = <<>>
  /\ cacheNoReads = <<>>
  /\ last = NoOp

Get(k) ==
  LET r == MemoryGet(cache, k, now)
      live == MapHas(cache, k) /\ ~IsExpired(MapGet(cache, k), now)
  IN /\ cache' = r.cache
     \* the second run leaves out exactly the reads of live entries
     /\ cacheNoReads' = IF live THEN cacheNoReads ELSE MemoryGet(cacheNoReads, k, now).cache
     /\ last' = [NoOp EXCEPT !.op = "get", !.key = k, !.old = OldData(cache, k),
                             !.ret = r.ret]
     /\ UNCHANGED <<now, maxEntries>>

Set(k, d, ttl) ==
  /\ cache' = MemorySet(cache, maxEntries, k, d, ttl, now)
  /\ cacheNoReads' = MemorySet(cacheNoReads, maxEntries, k, d, ttl, now)
  /\ last' = [NoOp EXCEPT !.op = "set", !.key = k, !.data = d, !.ttl = ttl,
                          !.old = OldData(cache, k),
                          !.prevRead = IF last.op = "get" /\ last.ret # Null
                                         THEN last.key ELSE "",
                          !.full = (Len(cache) >= maxEntries),
                          !.evicted = EvictedBy(cache, maxEntries, now),
                          !.evictedNoReads = EvictedBy(cacheNoReads, maxEntries, now)]
  /\ UNCHANGED <<now, maxEntries>>

Delete(k) ==
  /\ cache' = MemoryDelete(cache, k)
  /\ cacheNoReads' = MemoryDelete(cacheNoReads, k)
  /\ last' = [NoOp EXCEPT !.op = "delete", !.key = k, !.old = OldData(cache, k)]
  /\ UNCHANGED <<now, maxEntries>>

Clear ==
  /\ cache' = MemoryClear(cache)
  /\ cacheNoReads' = MemoryClear(cacheNoReads)
  /\ last' = [NoOp EXCEPT !.op = "clear"]
  /\ UNCHANGED <<now, maxEntries>>

\* time passes between two operations
Tick ==
  /\ now < MaxTime
  /\ now' = now + 1
  /\ last' = [NoOp EXCEPT !.op = "tick"]
  /\ UNCHANGED <<maxEntries, cache, cacheNoReads>>

\* ------------------------------------------------------ JavaScript objects
Has(o, f) == f \in DOMAIN o

\* "if (o.f)" for a string property and for a number property
TruthyStr(o, f) == Has(o, f) /\ o[f] # ""

TruthyNum(o, f) == Has(o, f) /\ o[f] # 0

\* "o?.f || ''" for a string property
StrOr(o, f) == IF TruthyStr(o, f) THEN o[f] ELSE ""

\* (variant: the second operand wins where it is not empty)
OrSecond(a, b) == IF b # "" THEN b ELSE a

\* "a || b" for strings
Or(a, b) == IF a # "" THEN a ELSE b

\* "o?.f || false" for a boolean property
Flag(o, f) == Has(o, f) /\ o[f]

\* the property name with the value of o.f, left out where o.f is undefined
Prop(name, o, f) == IF Has(o, f) THEN name :> o[f] ELSE EmptyObject

\* ---------------------------------------------------------- cloudflareUtils
\* the properties extractCloudflareData copies as they are
CopiedProperties ==
  {"country", "city", "postalCode", "timezone", "latitude", "longitude", "continent",
   "asn", "asOrganization", "colo", "httpProtocol", "tlsVersion", "tlsCipher",
   "requestPriority", "weight", "edgeRequestKeepAliveStatus", "clientAcceptEncoding",
   "clientTcpRtt"}

\* extractCloudflareData(request), request.cf being cf ({} where the request has none)
ExtractCloudflareData(cf) ==
  [f \in DOMAIN cf \cap CopiedProperties |-> cf[f]]
  @@ (IF TruthyStr(cf, "region") THEN Prop("region", cf, "region")
                                 ELSE Prop("region", cf, "regionCode"))
  @@ (IF Has(cf, "botManagement")
        THEN "botManagement" :> (Prop("score", cf.botManagement, "score")
                                 @@ Prop("staticResource", cf.botManagement, "staticResource")
                                 @@ Prop("verifiedBot", cf.botManagement, "verifiedBot"))
        ELSE EmptyObject)

\* getContinentName(code): continents[code] || code
GetContinentName(code) ==
  CASE code = "AF" -> "Africa"
    [] code = "AN" -> "Antarctica"
    [] code = "AS" -> "Asia"
    [] code = "EU" -> "Europe"
    [] code = "NA" -> "North America"
    [] code = "OC" -> "Oceania"
    [] code = "SA" -> "South America"
    [] OTHER -> code

\* getDatacenterLocation(colo): datacenters[colo] || `${colo} Datacenter`, for
\* the colos of the model and those the table does not list
GetDatacenterLocation(colo) ==
  CASE colo = "SJC" -> "San Jose, US"
    [] colo = "LHR" -> "London, UK"
    [] OTHER -> colo \o " Datacenter"

\* assessConnectionQuality(cfData)
AssessConnectionQuality(cfData) ==
  LET protocol == CASE StrOr(cfData, "httpProtocol") = "HTTP/3" -> 3
                    [] StrOr(cfData, "httpProtocol") = "HTTP/2" -> 2
                    [] StrOr(cfData, "httpProtocol") = "HTTP/1.1" -> 1
                    [] OTHER -> 0
      tls == CASE StrOr(cfData, "tlsVersion") = "TLSv1.3" -> 2
               [] StrOr(cfData, "tlsVersion") = "TLSv1.2" -> 1
               [] OTHER -> 0
      \* "cfData.clientTcpRtt && cfData.clientTcpRtt < 50": 0 is falsy
      rtt == IF TruthyNum(cfData, "clientTcpRtt") /\ cfData.clientTcpRtt < 50 THEN 2
             ELSE IF TruthyNum(cfData, "clientTcpRtt") /\ cfData.clientTcpRtt < 100 THEN 1
             ELSE 0
      score == protocol + tls + rtt
  IN IF score >= 6 THEN "excellent"
     ELSE IF score >= 4 THEN "good"
     ELSE IF score >= 2 THEN "fair"
     ELSE "poor"

\* the risk points of the privacy flags: "if (ipinfoPrivacy) { ... }"
PrivacyRisk(ipinfoPrivacy) ==
  IF ipinfoPrivacy # Undefined
    THEN (IF Flag(ipinfoPrivacy, "tor") THEN 3 ELSE 0)
         + (IF Flag(ipinfoPrivacy, "vpn") THEN 2 ELSE 0)
         + (IF Flag(ipinfoPrivacy, "proxy") THEN 2 ELSE 0)
         + (IF Flag(ipinfoPrivacy, "hosting") THEN 1 ELSE 0)
    ELSE 0

\* the mapping of the risk score to the level
LevelOf(riskScore) ==
  IF riskScore >= 5 THEN "high" ELSE IF riskScore >= 3 THEN "medium" ELSE "low"

\* (variant: the bot score counts only if it is truthy, so a score of 0 adds nothing)
AssessThreatLevelTruthyScore(cfData, ipinfoPrivacy) ==
  LET bot == IF Has(cfData, "botManagement") /\ TruthyNum(cfData.botManagement, "score")
               THEN IF cfData.botManagement.score < 30 THEN 3
                    ELSE IF cfData.botManagement.score < 50 THEN 2
                    ELSE IF cfData.botManagement.score < 80 THEN 1
                    ELSE 0
               ELSE 0
  IN LevelOf(bot + PrivacyRisk(ipinfoPrivacy))

\* (variant: tor adds 2, so tor and proxy together stay below 5)
AssessThreatLevelTorTwo(cfData, ipinfoPrivacy) ==
  LET bot == IF Has(cfData, "botManagement") /\ Has(cfData.botManagement, "score")
               THEN IF cfData.botManagement.score < 30 THEN 3
                    ELSE IF cfData.botManagement.score < 50 THEN 2
                    ELSE IF cfData.botManagement.score < 80 THEN 1
                    ELSE 0
               ELSE 0
  IN LevelOf(bot + PrivacyRisk(ipinfoPrivacy) - (IF Flag(ipinfoPrivacy, "tor") THEN 1 ELSE 0))

\* (variant: a risk score of 3 is already high)
AssessThreatLevelHighAtThree(cfData, ipinfoPrivacy) ==
  LET bot == IF Has(cfData, "botManagement") /\ Has(cfData.botManagement, "score")
               THEN IF cfData.botManagement.score < 30 THEN 3
                    ELSE IF cfData.botManagement.score < 50 THEN 2
                    ELSE IF cfData.botManagement.score < 80 THEN 1
                    ELSE 0
               ELSE 0
      riskScore == bot + PrivacyRisk(ipinfoPrivacy)
  IN IF riskScore >= 3 THEN "high" ELSE "low"

\* assessThreatLevel(cfData, ipinfoPrivacy)
AssessThreatLevel(cfData, ipinfoPrivacy) ==
  LET \* "cfData.botManagement?.score !== undefined"
      bot == IF Has(cfData, "botManagement") /\ Has(cfData.botManagement, "score")
               THEN IF cfData.botManagement.score < 30 THEN 3
                    ELSE IF cfData.botManagement.score < 50 THEN 2
                    ELSE IF cfData.botManagement.score < 80 THEN 1
                    ELSE 0
               ELSE 0
  IN LevelOf(bot + PrivacyRisk(ipinfoPrivacy))

\* ------------------------------------------- EnhancedIPService, the pure part
\* parseFloat, on the decimal strings of the model: the number in thousandths
ParseFloat(s) ==
  CASE s = "0" -> 0
    [] s = "37.751" -> 37751
    [] s = "-97.822" -> -97822
    [] s = "37.386" -> 37386
    [] s = "-122.084" -> -122084

\* loc.split(','), on the loc strings of the model
SplitComma(loc) ==
  CASE loc = "37.386,-122.084" -> <<"37.386", "-122.084">>
    [] loc = "0,0" -> <<"0", "0">>

\* parseInt(asn.replace('AS', '')), on the asn strings of the model
ParseAsn(asn) ==
  CASE asn = "AS15169" -> 15169
    [] asn = "AS13335" -> 13335

\* "ipinfoData?.privacy"
Privacy(ipinfoData) == IF Has(ipinfoData, "privacy") THEN ipinfoData.privacy ELSE Undefined

\* "ipinfoData?.asn", an object where it is defined
AsnBlock(ipinfoData) == IF Has(ipinfoData, "asn") THEN ipinfoData.asn ELSE EmptyObject

\* extractCoordinates(cfData, ipinfoData)
ExtractCoordinates(cfData, ipinfoData) ==
  IF TruthyStr(cfData, "latitude") /\ TruthyStr(cfData, "longitude")
    THEN [latitude |-> ParseFloat(cfData.latitude), longitude |-> ParseFloat(cfData.longitude)]
  ELSE IF TruthyStr(ipinfoData, "loc")
    THEN [latitude |-> ParseFloat(SplitComma(ipinfoData.loc)[1]),
          longitude |-> ParseFloat(SplitComma(ipinfoData.loc)[2])]
  ELSE [latitude |-> 0, longitude |-> 0]

\* "cfData.asn || (ipinfoData?.asn ? parseInt(ipinfoData.asn.asn.replace('AS', '')) : 0)"
\* throws a TypeError where the asn block has no asn string
NetworkAsnThrows(cfData, ipinfoData) ==
  ~TruthyNum(cfData, "asn") /\ Has(ipinfoData, "asn") /\ ~Has(ipinfoData.asn, "asn")

NetworkAsn(cfData, ipinfoData) ==
  IF TruthyNum(cfData, "asn") THEN cfData.asn
  ELSE IF Has(ipinfoData, "asn") THEN ParseAsn(ipinfoData.asn.asn)
  ELSE 0

\* (variant: the lookup result counts as a source only if it names a country)
CombineSourcesByCountry(cfData, ipinfoData) ==
  (IF TruthyStr(cfData, "country") THEN <<"cloudflare">> ELSE <<>>)
  \o (IF TruthyStr(ipinfoData, "country") THEN <<"ipinfo">> ELSE <<>>)

\* combineData: "if (cfData.country) sources.push('cloudflare');
\*               if (ipinfoData) sources.push('ipinfo')"
CombineSources(cfData, ipinfoData) ==
  (IF TruthyStr(cfData, "country") THEN <<"cloudflare">> ELSE <<>>)
  \o (IF ipinfoData # Null THEN <<"ipinfo">> ELSE <<>>)

\* combineData: locationAccuracy
CombineAccuracy(sources, coordinates) ==
  IF Len(sources) >= 2 /\ coordinates.latitude # 0 /\ coordinates.longitude # 0 THEN "high"
  ELSE IF Len(sources) >= 1 THEN "medium"
  ELSE "low"

\* combineData throws where the evaluation of network.asn does
CombineDataThrows(cfData, ipinfoData) == NetworkAsnThrows(cfData, ipinfoData)

\* combineData(ip, ipVersion, cfData, ipinfoData, requestId, startTime), without
\* requestId, timestamp and processingTime
CombineData(ip, ipVersion, cfData, ipinfoData) ==
  LET coordinates == ExtractCoordinates(cfData, ipinfoData)
      sources == CombineSources(cfData, ipinfoData)
      locationAccuracy == CombineAccuracy(sources, coordinates)
      bot == IF Has(cfData, "botManagement") THEN cfData.botManagement ELSE EmptyObject
  IN [ip |-> ip,
      ipVersion |-> ipVersion,
      location |->
        [country |-> Or(StrOr(cfData, "country"), StrOr(ipinfoData, "country")),
         countryCode |-> StrOr(cfData, "country"),
         region |-> Or(StrOr(cfData, "region"), StrOr(ipinfoData, "region")),
         city |-> Or(StrOr(cfData, "city"), StrOr(ipinfoData, "city")),
         timezone |-> Or(StrOr(cfData, "timezone"), StrOr(ipinfoData, "timezone")),
         coordinates |-> coordinates,
         continent |-> GetContinentName(StrOr(cfData, "continent")),
         accuracy |-> locationAccuracy,
         sources |-> sources]
        @@ (IF TruthyStr(cfData, "postalCode") THEN Prop("postalCode", cfData, "postalCode")
                                               ELSE Prop("postalCode", ipinfoData, "postal")),
      network |->
        [asn |-> NetworkAsn(cfData, ipinfoData),
         organization |-> Or(StrOr(cfData, "asOrganization"), StrOr(ipinfoData, "org")),
         type |-> Or(StrOr(AsnBlock(ipinfoData), "type"), "unknown")]
        @@ Prop("isp", ipinfoData, "org")
        @@ Prop("domain", AsnBlock(ipinfoData), "domain")
        @@ Prop("route", AsnBlock(ipinfoData), "route"),
      security |->
        [vpn |-> Flag(Privacy(ipinfoData), "vpn"),
         proxy |-> Flag(Privacy(ipinfoData), "proxy"),
         tor |-> Flag(Privacy(ipinfoData), "tor"),
         hosting |-> Flag(Privacy(ipinfoData), "hosting"),
         threatLevel |-> AssessThreatLevel(cfData, Privacy(ipinfoData)),
         malicious |-> AssessThreatLevel(cfData, Privacy(ipinfoData)) = "high"]
        @@ Prop("botScore", bot, "score")
        @@ Prop("verifiedBot", bot, "verifiedBot"),
      connection |->
        [datacenter |-> GetDatacenterLocation(StrOr(cfData, "colo")),
         httpProtocol |-> Or(StrOr(cfData, "httpProtocol"), "unknown"),
         edgeLocation |-> Or(StrOr(cfData, "colo"), "unknown")]
        @@ Prop("tlsVersion", cfData, "tlsVersion")
        @@ Prop("tlsCipher", cfData, "tlsCipher")
        @@ Prop("tcpRtt", cfData, "clientTcpRtt"),
      sources |->
        [ipinfo |-> ipinfoData # Null,
         cloudflare |-> TruthyStr(cfData, "country") \/ TruthyStr(cfData, "colo"),
         computed |-> IF locationAccuracy = "high" THEN <<"location_accuracy">> ELSE <<>>]]
     @@ Prop("company", ipinfoData, "company")
     @@ Prop("carrier", ipinfoData, "carrier")

\* new Date(t).toISOString(), on the instants of the model
ToISOString(t) ==
  CASE t = 0 -> "1970-01-01T00:00:00.000Z"
    [] t = 300001 -> "1970-01-01T00:05:00.001Z"
    [] t = 600001 -> "1970-01-01T00:10:00.001Z"

\* calculateProcessingTime(startTime), called at time t
CalculateProcessingTime(startTime, t) == t - startTime

\* (variant: the time of the call is written into the sources block as well)
CombineDataAtStampsSources(ip, ipVersion, cfData, ipinfoData, requestId, startTime, t) ==
  LET r == [requestId |-> requestId,
            timestamp |-> ToISOString(t),
            processingTime |-> CalculateProcessingTime(startTime, t)]
           @@ CombineData(ip, ipVersion, cfData, ipinfoData)
  IN [r EXCEPT !.sources = [computedAt |-> ToISOString(t)] @@ @]

\* combineData(ip, ipVersion, cfData, ipinfoData, requestId, startTime), called at
\* time t: the whole record it returns
CombineDataAt(ip, ipVersion, cfData, ipinfoData, requestId, startTime, t) ==
  [requestId |-> requestId,
   timestamp |-> ToISOString(t),
   processingTime |-> CalculateProcessingTime(startTime, t)]
  @@ CombineData(ip, ipVersion, cfData, ipinfoData)

\* getGeolocation: "if (cfData.country) sources.push('cloudflare');
\*                  if (ipinfoData?.country) sources.push('ipinfo')"
GeolocationSources(cfData, ipinfoData) ==
  (IF TruthyStr(cfData, "country") THEN <<"cloudflare">> ELSE <<>>)
  \o (IF TruthyStr(ipinfoData, "country") THEN <<"ipinfo">> ELSE <<>>)

\* getGeolocation: accuracy
GeolocationAccuracy(sources, cfData) ==
  IF Len(sources) >= 2 /\ TruthyStr(cfData, "latitude") /\ TruthyStr(cfData, "longitude")
    THEN "high"
  ELSE IF Len(sources) >= 1 THEN "medium"
  ELSE "low"

\* getGeolocation: the result built from cfData and ipinfoData
GeolocationResult(ip, cfData, ipinfoData) ==
  [ip |-> ip,
   country |-> Or(StrOr(cfData, "country"), StrOr(ipinfoData, "country")),
   countryCode |-> StrOr(cfData, "country"),
   region |-> Or(StrOr(cfData, "region"), StrOr(ipinfoData, "region")),
   city |-> Or(StrOr(cfData, "city"), StrOr(ipinfoData, "city")),
   timezone |-> Or(StrOr(cfData, "timezone"), StrOr(ipinfoData, "timezone")),
   coordinates |-> ExtractCoordinates(cfData, ipinfoData),
   continent |-> GetContinentName(StrOr(cfData, "continent")),
   accuracy |-> GeolocationAccuracy(GeolocationSources(cfData, ipinfoData), cfData),
   sources |-> GeolocationSources(cfData, ipinfoData)]
  @@ (IF TruthyStr(cfData, "postalCode") THEN Prop("postalCode", cfData, "postalCode")
                                         ELSE Prop("postalCode", ipinfoData, "postal"))

\* getSecurityInfo: riskFactors
RiskFactors(cfData, ipinfoData) ==
  (IF Flag(Privacy(ipinfoData), "vpn") THEN <<"VPN usage detected">> ELSE <<>>)
  \o (IF Flag(Privacy(ipinfoData), "proxy") THEN <<"Proxy usage detected">> ELSE <<>>)
  \o (IF Flag(Privacy(ipinfoData), "tor") THEN <<"Tor network usage detected">> ELSE <<>>)
  \o (IF Flag(Privacy(ipinfoData), "hosting") THEN <<"Hosting/datacenter IP">> ELSE <<>>)
  \o (IF /\ Has(cfData, "botManagement")
         /\ TruthyNum(cfData.botManagement, "score")
         /\ cfData.botManagement.score < 50
        THEN <<"Low bot management score">> ELSE <<>>)

\* getSecurityInfo: the result built from cfData and ipinfoData
SecurityResult(ip, cfData, ipinfoData) ==
  LET tor == Flag(Privacy(ipinfoData), "tor")
      proxy == Flag(Privacy(ipinfoData), "proxy")
      threatLevel == AssessThreatLevel(cfData, Privacy(ipinfoData))
      bot == IF Has(cfData, "botManagement") THEN cfData.botManagement ELSE EmptyObject
  IN [ip |-> ip,
      vpn |-> Flag(Privacy(ipinfoData), "vpn"),
      proxy |-> proxy,
      tor |-> tor,
      hosting |-> Flag(Privacy(ipinfoData), "hosting"),
      threatLevel |-> threatLevel,
      malicious |-> (threatLevel = "high" \/ (tor /\ proxy)),
      riskFactors |-> RiskFactors(cfData, ipinfoData)]
     @@ Prop("botScore", bot, "score")
     @@ Prop("verifiedBot", bot, "verifiedBot")

\* getNetworkInfo: the result built from cfData and ipinfoData
NetworkResult(ip, cfData, ipinfoData) ==
  [ip |-> ip,
   asn |-> NetworkAsn(cfData, ipinfoData),
   organization |-> Or(StrOr(cfData, "asOrganization"), StrOr(ipinfoData, "org")),
   type |-> Or(StrOr(AsnBlock(ipinfoData), "type"), "unknown"),
   datacenter |-> GetDatacenterLocation(StrOr(cfData, "colo")),
   httpProtocol |-> Or(StrOr(cfData, "httpProtocol"), "unknown"),
   connectionQuality |-> AssessConnectionQuality(cfData)]
  @@ Prop("isp", ipinfoData, "org")
  @@ Prop("route", AsnBlock(ipinfoData), "route")
  @@ Prop("tlsVersion", cfData, "tlsVersion")

\* ------------------------------------------------------------ the service
\* (variant: the key is built without the prefix)
GenerateCacheKeyNoPrefix(prefix, ip, additionalParams) ==
  ip \o (IF additionalParams # "" THEN ":" \o additionalParams ELSE "")

\* generateCacheKey(prefix, ip, additionalParams = '')
GenerateCacheKey(prefix, ip, additionalParams) ==
  prefix \o ":" \o ip \o (IF additionalParams # "" THEN ":" \o additionalParams ELSE "")

\* (variant: every string passes validation)
ValidateIPLenient(ip) == ip \in ValidIPs \cup InvalidIPs

\* validateIP, on the inputs of the model: the empty string is rejected ("IP
\* address is required"), a dotted quad of octets matches the IPv4 pattern.
ValidateIP(ip) == ip \in ValidIPs

\* validateIP(ip).version, for the addresses of the model that are valid
IpVersion(ip) == IF ip \in IPv6s THEN 6 ELSE 4

\* createErrorResponse(code, message, requestId): the code
ErrorResponse(code) == [error |-> [code |-> code]]

\* (variant: the first maxEntries records are kept)
RecordRequestKeepsOldest(data, rec) ==
  LET pushed == Append(data, rec)
  IN IF Len(pushed) > AnalyticsMaxEntries
       THEN SubSeq(pushed, 1, AnalyticsMaxEntries)
       ELSE pushed

\* AnalyticsService.recordRequest
RecordRequest(data, rec) ==
  LET pushed == Append(data, rec)
  IN IF Len(pushed) > AnalyticsMaxEntries
       THEN SubSeq(pushed, Len(pushed) - AnalyticsMaxEntries + 1, Len(pushed))
       ELSE pushed

\* EnhancedIPService.recordAnalytics: the record's ip, endpoint and status
AnalyticsRecord(ip, op, status) == [ip |-> ip, endpoint |-> op, status |-> status]

\* the same record with its requestId: the ordinal of the request it records
LoggedRecord(ip, op, status, n) == AnalyticsRecord(ip, op, status) @@ ("requestId" :> n)

\* analyticsData after n requests were recorded
LogAfter(n) == [i \in 1..n |-> LoggedRecord("8.8.8.8", "enhanced", 200, i)]

\* a JavaScript number: an integer or NaN
Num(n) == [nan |-> FALSE, n |-> n]
NaN == [nan |-> TRUE, n |-> 0]

\* parseInt(s), on the strings of the model
ParseInt(s) ==
  CASE s = "50" -> Num(50)
    [] s = "0" -> Num(0)
    [] s = "-5" -> Num(-5)
    [] s = "10" -> Num(10)
    [] s = "200" -> Num(200)
    [] s = "201" -> Num(201)
    [] s = "1000" -> Num(1000)
    [] s = "abc" -> NaN

\* Math.min(a, b): NaN if either is
MathMin(a, b) == IF a.nan \/ b.nan THEN NaN ELSE IF a.n < b.n THEN a ELSE b

\* array.slice(start): start NaN counts as 0, a negative start counts from the end
Slice(array, start) ==
  LET len == Len(array)
      k == IF start.nan THEN 0
           ELSE IF start.n < 0 THEN (IF len + start.n > 0 THEN len + start.n ELSE 0)
           ELSE IF start.n < len THEN start.n ELSE len
  IN SubSeq(array, k + 1, len)

\* array.reverse()
Reverse(array) == [i \in 1..Len(array) |-> array[Len(array) + 1 - i]]

\* AnalyticsService.getRecentRequests(limit): "-limit" of NaN is NaN
GetRecentRequests(data, limit) ==
  Reverse(Slice(data, IF limit.nan THEN NaN ELSE Num(-limit.n)))

\* pathname.endsWith(suffix), for a suffix that starts with "/"
EndsWith(pathname, suffix) ==
  /\ Len(pathname) >= Len(suffix)
  /\ SubSeq(pathname, Len(pathname) - Len(suffix) + 1, Len(pathname)) = suffix

\* (variant: a transport error and a response that is not ok are thrown to the caller)
FetchIPInfoDataOnResponseRethrows(outcome) ==
  IF outcome = "error" THEN [threw |-> TRUE, done |-> TRUE, value |-> Null]
  ELSE IF outcome = "notok" THEN [threw |-> TRUE, done |-> TRUE, value |-> Null]
  ELSE [threw |-> FALSE, done |-> FALSE, value |-> Null]

\* fetchIPInfoData once fetch() has settled: a transport error is caught and a
\* response that is not ok is answered with null; an ok response goes on to
\* response.json().  [threw, done, value]
FetchIPInfoDataOnResponse(outcome) ==
  IF outcome = "error" THEN [threw |-> FALSE, done |-> TRUE, value |-> Null]
  ELSE IF outcome = "notok" THEN [threw |-> FALSE, done |-> TRUE, value |-> Null]
  ELSE [threw |-> FALSE, done |-> FALSE, value |-> Null]

\* (variant: response.json() is awaited outside the try block)
FetchIPInfoDataOnJsonUncaught(body) ==
  IF body = Unparsable THEN [threw |-> TRUE, value |-> Null]
  ELSE [threw |-> FALSE, value |-> body]

\* fetchIPInfoData once response.json() has settled: a body that does not parse
\* rejects inside the try block and is caught.  [threw, value]
FetchIPInfoDataOnJson(body) ==
  IF body = Unparsable THEN [threw |-> FALSE, value |-> Null]
  ELSE [threw |-> FALSE, value |-> body]

\* (variant: a caller that misses while the same key is being fetched waits for
\* that fetch instead of issuing its own)
CachedFetchMissesSingleFlight(cached, key) ==
  cached = Null /\ ~\E q \in Requests : reqs[q].pc \in {"fetch", "json", "store"}
                                         /\ GenerateCacheKey("ipinfo", reqs[q].ip, "") = key

\* cachedFetch: "if (cached !== null) return cached", else the fetch function is called
CachedFetchMisses(cached, key) == cached = Null

\* what each operation builds from cfData and the lookup result, and whether
\* building it throws
BuildResult(op, ip, cfData, data) ==
  CASE op = "enhanced" -> CombineData(ip, IpVersion(ip), cfData, data)
    [] op = "geolocation" -> GeolocationResult(ip, cfData, data)
    [] op = "security" -> SecurityResult(ip, cfData, data)
    [] op = "network" -> NetworkResult(ip, cfData, data)

BuildThrows(op, cfData, data) ==
  CASE op = "enhanced" -> CombineDataThrows(cfData, data)
    [] op = "network" -> NetworkAsnThrows(cfData, data)
    [] OTHER -> FALSE

\* getSecurityInfo and getNetworkInfo call recordAnalytics with status 200 before
\* they evaluate the object they return
RecordsBeforeBuilding(op) == op \in {"security", "network"}

\* which operations go through enhancedCache, and under which ttl
UsesEnhancedCache(op) == op \in {"enhanced", "geolocation"}

ResultTTL(op) == IF op = "enhanced" THEN ENHANCED_IP ELSE GEOLOCATION

IdleReq == [pc |-> "idle", op |-> "", ip |-> "", cf |-> EmptyObject, outcome |-> "",
            body |-> Null, data |-> Null, threw |-> FALSE, hit |-> FALSE]

\* returned: the operation, its ip and its request's cf object, the path it took
\* ("invalid", "hit", "computed", "error") and the object it returned
NoReturn == [op |-> "", ip |-> "", cf |-> EmptyObject, path |-> "none", body |-> Null]

ServiceInit ==
  /\ ipinfoCache = <<>>
  /\ enhancedCache = <<>>
  /\ reqs = [r \in Requests |-> IdleReq]
  /\ outbound = [ip \in ValidIPs |-> 0]
  /\ analyticsData = <<>>
  /\ started = 0
  /\ returned = NoReturn

\* getEnhancedIPInfo / getGeolocation / getSecurityInfo / getNetworkInfo up to the
\* first await: validation, the enhancedCache lookup, then cachedFetch up to the
\* call of fetch().
StartLookup(r, op, ip, cf) ==
  /\ reqs[r].pc = "idle"
  /\ started < MaxLookups
  /\ started' = started + 1
  /\ UNCHANGED <<now, cacheVars, reconcileVars>>
  /\ IF ~ValidateIP(ip)
       THEN /\ analyticsData' = RecordRequest(analyticsData, AnalyticsRecord(ip, op, 400))
            /\ reqs' = [reqs EXCEPT ![r] = IdleReq]
            /\ returned' = [op |-> op, ip |-> ip, cf |-> cf, path |-> "invalid",
                            body |-> ErrorResponse("INVALID_IP")]
            /\ UNCHANGED <<ipinfoCache, enhancedCache, outbound>>
       ELSE LET g == IF UsesEnhancedCache(op)
                       THEN MemoryGet(enhancedCache, GenerateCacheKey(op, ip, ""), now)
                       ELSE [cache |-> enhancedCache, ret |-> Null]
            IN /\ enhancedCache' = g.cache
               /\ IF g.ret # Null
                    THEN /\ analyticsData' =
                              RecordRequest(analyticsData, AnalyticsRecord(ip, op, 200))
                         /\ reqs' = [reqs EXCEPT ![r] = IdleReq]
                         /\ returned' = [op |-> op, ip |-> ip, cf |-> cf, path |-> "hit",
                                         body |-> g.ret]
                         /\ UNCHANGED <<ipinfoCache, outbound>>
                    ELSE LET key == GenerateCacheKey("ipinfo", ip, "")
                             c == MemoryGet(ipinfoCache, key, now)
                         IN /\ ipinfoCache' = c.cache
                            /\ UNCHANGED <<analyticsData, returned>>
                            /\ IF CachedFetchMisses(c.ret, key)
                                 THEN /\ outbound' = [outbound EXCEPT ![ip] = @ + 1]
                                      /\ reqs' = [reqs EXCEPT ![r] =
                                           [IdleReq EXCEPT !.pc = "fetch", !.op = op, !.ip = ip,
                                                           !.cf = cf]]
                                 ELSE /\ UNCHANGED outbound
                                      /\ reqs' = [reqs EXCEPT ![r] =
                                           [IdleReq EXCEPT !.pc = "resume", !.op = op,
                                                           !.ip = ip, !.cf = cf,
                                                           !.data = c.ret, !.hit = TRUE]]

\* the fetch() promise of fetchIPInfoData settles
FetchSettles(r, outcome) ==
  /\ reqs[r].pc = "fetch"
  /\ LET res == FetchIPInfoDataOnResponse(outcome)
     IN reqs' = [reqs EXCEPT ![r] =
                   [@ EXCEPT !.pc = IF res.threw THEN "resume"
                                    ELSE IF res.done THEN "store" ELSE "json",
                             !.outcome = outcome, !.data = res.value, !.threw = res.threw]]
  /\ UNCHANGED <<now, cacheVars, reconcileVars, ipinfoCache, enhancedCache, outbound,
                 analyticsData, started, returned>>

\* the response.json() promise of fetchIPInfoData settles
JsonSettles(r, body) ==
  /\ reqs[r].pc = "json"
  /\ LET res == FetchIPInfoDataOnJson(body)
     IN reqs' = [reqs EXCEPT ![r] =
                   [@ EXCEPT !.pc = IF res.threw THEN "resume" ELSE "store",
                             !.body = body, !.data = res.value, !.threw = res.threw]]
  /\ UNCHANGED <<now, cacheVars, reconcileVars, ipinfoCache, enhancedCache, outbound,
                 analyticsData, started, returned>>

\* cachedFetch after "await fetchFn()": cache.set(cacheKey, data, ttl); return data
CachedFetchStore(r) ==
  /\ reqs[r].pc = "store"
  /\ ipinfoCache' = MemorySet(ipinfoCache, IpinfoMaxEntries,
                              GenerateCacheKey("ipinfo", reqs[r].ip, ""),
                              reqs[r].data, IPINFO_DATA, now)
  /\ reqs' = [reqs EXCEPT ![r] = [@ EXCEPT !.pc = "resume"]]
  /\ UNCHANGED <<now, cacheVars, reconcileVars, enhancedCache, outbound, analyticsData,
                 started, returned>>

\* the operation after "await this.fetchIPInfoDataCached(ip)": build the result,
\* cache it where the operation does, record the request with status 200 (before
\* the result is built in getSecurityInfo and getNetworkInfo, after it in the
\* other two); whatever is thrown is caught, recorded with status 500 and
\* answered with PROCESSING_ERROR.
FinishLookup(r) ==
  /\ reqs[r].pc = "resume"
  /\ LET op == reqs[r].op
         ip == reqs[r].ip
         cfData == ExtractCloudflareData(reqs[r].cf)
         throws == reqs[r].threw \/ BuildThrows(op, cfData, reqs[r].data)
         ok == RecordRequest(analyticsData, AnalyticsRecord(ip, op, 200))
     IN IF throws
          THEN /\ analyticsData' =
                    IF ~reqs[r].threw /\ RecordsBeforeBuilding(op)
                      THEN RecordRequest(ok, AnalyticsRecord(ip, op, 500))
                      ELSE RecordRequest(analyticsData, AnalyticsRecord(ip, op, 500))
               /\ returned' = [op |-> op, ip |-> ip, cf |-> reqs[r].cf, path |-> "error",
                               body |-> ErrorResponse("PROCESSING_ERROR")]
               /\ UNCHANGED enhancedCache
          ELSE /\ analyticsData' = ok
               /\ returned' = [op |-> op, ip |-> ip, cf |-> reqs[r].cf, path |-> "computed",
                               body |-> BuildResult(op, ip, cfData, reqs[r].data)]
               /\ enhancedCache' =
                    IF UsesEnhancedCache(op)
                      THEN MemorySet(enhancedCache, EnhancedMaxEntries,
                                     GenerateCacheKey(op, ip, ""),
                                     BuildResult(op, ip, cfData, reqs[r].data),
                                     ResultTTL(op), now)
                      ELSE enhancedCache
  /\ reqs' = [reqs EXCEPT ![r] = IdleReq]
  /\ UNCHANGED <<now, cacheVars, reconcileVars, ipinfoCache, outbound, started>>

\* getEnhancedIPInfo / getGeolocation with the lookup left out: "Cache the
\* result", under the key of the operation's namespace, the ip and a qualifier
CacheResult(op, ip, additionalParams) ==
  /\ started < MaxLookups
  /\ started' = started + 1
  /\ enhancedCache' =
       MemorySet(enhancedCache, EnhancedMaxEntries, GenerateCacheKey(op, ip, additionalParams),
                 BuildResult(op, ip, ExtractCloudflareData(EdgeSJC), GoodBody),
                 ResultTTL(op), now)
  /\ UNCHANGED <<now, cacheVars, reconcileVars, ipinfoCache, reqs, outbound, analyticsData,
                 returned>>

\* getEnhancedIPInfo / getGeolocation: "Try cache first", under the same key;
\* returned holds what the cache gave ("hit") or that it gave nothing ("miss")
TryCache(op, ip, additionalParams) ==
  LET g == MemoryGet(enhancedCache, GenerateCacheKey(op, ip, additionalParams), now)
  IN /\ enhancedCache' = g.cache
     /\ returned' = [op |-> op, ip |-> ip, cf |-> EmptyObject,
                     path |-> IF g.ret # Null THEN "hit" ELSE "miss", body |-> g.ret]
     /\ UNCHANGED <<now, cacheVars, reconcileVars, ipinfoCache, reqs, outbound,
                    analyticsData, started>>

\* what a handler other than the four operations answers with, and the method
\* and pathname of the request it answers
Respond(method, pathname, op, path, body) ==
  [op |-> op, ip |-> "", cf |-> EmptyObject, path |-> path, body |-> body,
   request |-> [method |-> method, pathname |-> pathname]]

\* the cache statistics the summary and the health endpoint report
CacheStats == [enhanced |-> StatsSize(enhancedCache), ipinfo |-> StatsSize(ipinfoCache)]

\* handlers/analytics.js fetch(request, env): the preflight, the summary, the
\* recent requests, the health report, the reset, or 404
HandleAnalytics(method, pathname, query) ==
  IF method = "OPTIONS"
    THEN /\ returned' = Respond(method, pathname, "analytics", "preflight", Null)
         /\ UNCHANGED <<analyticsData, enhancedCache, ipinfoCache>>
  ELSE IF EndsWith(pathname, <<"analytics">>) \/ EndsWith(pathname, <<"analytics", "">>)
    THEN /\ returned' = Respond(method, pathname, "analytics", "summary",
                                [totalRequests |-> Len(analyticsData), cache |-> CacheStats])
         /\ UNCHANGED <<analyticsData, enhancedCache, ipinfoCache>>
  ELSE IF EndsWith(pathname, <<"analytics", "recent">>)
    THEN LET limit == ParseInt(Or(StrOr(query, "limit"), "50"))
             recentRequests == GetRecentRequests(analyticsData, MathMin(limit, Num(200)))
         IN /\ returned' = Respond(method, pathname, "analytics", "recent",
                                   [recentRequests |-> recentRequests,
                                    count |-> Len(recentRequests)])
            /\ UNCHANGED <<analyticsData, enhancedCache, ipinfoCache>>
  ELSE IF EndsWith(pathname, <<"analytics", "health">>)
    THEN /\ returned' = Respond(method, pathname, "analytics", "health",
                                [requestsProcessed |-> Len(analyticsData),
                                 cache |-> CacheStats])
         /\ UNCHANGED <<analyticsData, enhancedCache, ipinfoCache>>
  ELSE IF EndsWith(pathname, <<"analytics", "clear">>) /\ method = "POST"
    THEN /\ analyticsData' = <<>>
         /\ enhancedCache' = MemoryClear(enhancedCache)
         /\ ipinfoCache' = MemoryClear(ipinfoCache)
         /\ returned' = Respond(method, pathname, "analytics", "clear", Null)
  ELSE /\ returned' = Respond(method, pathname, "analytics", "notfound",
                              ErrorResponse("ANALYTICS_ENDPOINT_NOT_FOUND"))
       /\ UNCHANGED <<analyticsData, enhancedCache, ipinfoCache>>

\* segment.length, for the segments of the model's pathnames
SegmentLength(segment) ==
  CASE segment = "" -> 0
    [] segment = "x" -> 1
    [] segment \in {"ip", "me", "v1"} -> 2
    [] segment = "docs" -> 4
    [] segment \in {"clear", "other"} -> 5
    [] segment \in {"status", "recent", "health"} -> 6
    [] segment = "analytics" -> 9

\* pathname.length: "/" alone, or "/" and a segment for every segment
RECURSIVE PathLength(_)
PathLength(pathname) ==
  IF pathname = <<>> THEN 1
  ELSE IF Len(pathname) = 1 THEN 1 + SegmentLength(pathname[1])
  ELSE 1 + SegmentLength(Head(pathname)) + PathLength(Tail(pathname))

\* pathname.startsWith('/api/<name>/') and pathname.startsWith('/<name>'), the
\* latter for the pathnames of the model, whose first segment is whole
StartsWithApi(pathname, name) ==
  Len(pathname) >= 3 /\ pathname[1] = "api" /\ pathname[2] = name

StartsWith(pathname, name) == Len(pathname) >= 1 /\ pathname[1] = name

\* worker.js fetch(request, env, ctx): the handler a request is given to
Route(method, pathname) ==
  IF method = "OPTIONS" THEN "preflight"
  ELSE IF pathname = <<>> \/ pathname = <<"docs">> THEN "docs"
  ELSE IF PathLength(pathname) <= 2 \/ pathname = <<"ip">> \/ pathname = <<"me">>
    THEN "enhancedOwnIP"
  ELSE IF StartsWithApi(pathname, "enhanced") THEN "enhanced"
  ELSE IF StartsWithApi(pathname, "geolocation") THEN "geolocation"
  ELSE IF StartsWithApi(pathname, "security") THEN "security"
  ELSE IF StartsWithApi(pathname, "network") THEN "network"
  ELSE IF StartsWith(pathname, "analytics") THEN "analytics"
  ELSE IF Len(pathname) >= 2 /\ pathname[1] = "api" /\ pathname[2] = "ipv4info" THEN "ipv4"
  ELSE IF Len(pathname) >= 2 /\ pathname[1] = "api" /\ pathname[2] = "ipv6info" THEN "ipv6"
  ELSE IF PathLength(pathname) \in {13, 14} THEN "ownIP"
  ELSE "notfound"

\* getAPIDocumentation(): the title of the document
Documentation == [title |-> "Enhanced IP Information API"]

\* a request to an analytics path, on its own
AnalyticsRequest(method, pathname, query) ==
  /\ HandleAnalytics(method, pathname, query)
  /\ UNCHANGED <<now, cacheVars, reconcileVars, reqs, outbound, started>>

\* recordAnalytics on its own: one more request is recorded
RecordAnalytics(ip, op, status) ==
  /\ started < MaxLookups
  /\ started' = started + 1
  /\ analyticsData' =
       RecordRequest(analyticsData,
                     LoggedRecord(ip, op, status, AnalyticsMaxEntries + started + 1))
  /\ UNCHANGED <<now, cacheVars, reconcileVars, ipinfoCache, enhancedCache, reqs, outbound,
                 returned>>

\* worker.js fetch(request, env, ctx) for the requests of the model: the
\* preflight, the documentation, the enhanced own-IP handler (which answers
\* NO_CLIENT_IP without a client address and calls getEnhancedIPInfo(clientIP,
\* request) otherwise), the analytics handler, or 404
WorkerFetch(r, method, pathname, query, clientIP, cf) ==
  LET route == Route(method, pathname)
      answers(op, path, body) ==
        /\ returned' = Respond(method, pathname, op, path, body)
        /\ UNCHANGED <<now, cacheVars, reconcileVars, ipinfoCache, enhancedCache, reqs,
                       outbound, analyticsData, started>>
  IN CASE route = "preflight" -> answers("worker", "preflight", Null)
       [] route = "docs" -> answers("docs", "docs", Documentation)
       [] route = "enhancedOwnIP" ->
            IF clientIP = "unknown"
              THEN answers("enhancedOwnIP", "noclientip", ErrorResponse("NO_CLIENT_IP"))
              ELSE StartLookup(r, "enhanced", clientIP, cf)
       [] route = "analytics" -> AnalyticsRequest(method, pathname, query)
       [] route = "notfound" -> answers("worker", "notfound", ErrorResponse("ENDPOINT_NOT_FOUND"))

\* POST .../analytics/clear
AdminClear ==
  /\ analyticsData' = <<>>
  /\ enhancedCache' = MemoryClear(enhancedCache)
  /\ ipinfoCache' = MemoryClear(ipinfoCache)
  /\ UNCHANGED <<now, cacheVars, reconcileVars, reqs, outbound, started, returned>>

\* time passes
Advance(t) ==
  /\ t > now
  /\ now' = t
  /\ UNCHANGED <<cacheVars, serviceVars, reconcileVars>>

\* ------------------------------------------ reconciliation on its own: actions
NoView == [kind |-> "none"]

Thrown == [thrown |-> TRUE]

ReconcileIdle ==
  /\ edge = EmptyObject
  /\ external = Null
  /\ view = NoView
  /\ previous = NoView

\* combineData applied to the edge metadata and the lookup result
ApplyCombineData ==
  /\ view' = [kind |-> "full",
              result |-> IF CombineDataThrows(ExtractCloudflareData(edge), external)
                           THEN Thrown
                           ELSE CombineData("8.8.8.8", IpVersion("8.8.8.8"),
                                            ExtractCloudflareData(edge), external)]
  /\ UNCHANGED <<now, cacheVars, serviceVars, edge, external, previous>>

\* what getGeolocation computes from the same two inputs
ApplyGeolocation ==
  /\ view' = [kind |-> "geolocation",
              result |-> GeolocationResult("8.8.8.8", ExtractCloudflareData(edge), external)]
  /\ UNCHANGED <<now, cacheVars, serviceVars, edge, external, previous>>

\* what getSecurityInfo computes from the same two inputs
ApplySecurity ==
  /\ view' = [kind |-> "security",
              result |-> SecurityResult("8.8.8.8", ExtractCloudflareData(edge), external)]
  /\ UNCHANGED <<now, cacheVars, serviceVars, edge, external, previous>>

\* what getNetworkInfo computes from the same two inputs
ApplyNetwork ==
  /\ view' = [kind |-> "network",
              result |-> IF NetworkAsnThrows(ExtractCloudflareData(edge), external)
                           THEN Thrown
                           ELSE NetworkResult("8.8.8.8", ExtractCloudflareData(edge), external)]
  /\ UNCHANGED <<now, cacheVars, serviceVars, edge, external, previous>>

\* one more call of combineData on the same edge metadata and lookup result, by a
\* request that started at startTime and was given requestId
RunCombineData(requestId, startTime) ==
  /\ startTime <= now
  /\ view' = [kind |-> "full",
              result |-> IF CombineDataThrows(ExtractCloudflareData(edge), external)
                           THEN Thrown
                           ELSE CombineDataAt("8.8.8.8", IpVersion("8.8.8.8"),
                                              ExtractCloudflareData(edge), external,
                                              requestId, startTime, now)]
  /\ previous' = view
  /\ UNCHANGED <<now, cacheVars, serviceVars, edge, external>>

vars == <<now, cacheVars, serviceVars, reconcileVars>>

\* ------------------------------------------------ MemoryCache specifications
Init == CacheInit(Capacities) /\ ServiceInit /\ ReconcileIdle

Next ==
  \/ \E k \in Keys : Get(k) /\ UNCHANGED <<serviceVars, reconcileVars>>
  \/ \E k \in Keys, d \in Values, ttl \in TTLs : Set(k, d, ttl) /\ UNCHANGED <<serviceVars, reconcileVars>>
  \/ \E k \in Keys : Delete(k) /\ UNCHANGED <<serviceVars, reconcileVars>>
  \/ Clear /\ UNCHANGED <<serviceVars, reconcileVars>>
  \/ Tick /\ UNCHANGED <<serviceVars, reconcileVars>>

Spec == Init /\ [][Next]_vars

InitEvict == CacheInit(EvictCapacities) /\ ServiceInit /\ ReconcileIdle

NextEvict ==
  \/ \E k \in ReadKeys : Get(k) /\ UNCHANGED <<serviceVars, reconcileVars>>
  \/ \E k \in ManyKeys, d \in OneValue, ttl \in EvictTTLs :
       Set(k, d, ttl) /\ UNCHANGED <<serviceVars, reconcileVars>>
  \/ Tick /\ UNCHANGED <<serviceVars, reconcileVars>>

SpecEvict == InitEvict /\ [][NextEvict]_vars

InitOverflow == CacheInit(SmallCapacities) /\ ServiceInit /\ ReconcileIdle

NextOverflow ==
  \/ \E k \in ManyKeys : Get(k) /\ UNCHANGED <<serviceVars, reconcileVars>>
  \/ \E k \in ManyKeys, d \in OneValue, ttl \in EvictTTLs :
       Set(k, d, ttl) /\ UNCHANGED <<serviceVars, reconcileVars>>
  \/ \E k \in ManyKeys : Delete(k) /\ UNCHANGED <<serviceVars, reconcileVars>>
  \/ Clear /\ UNCHANGED <<serviceVars, reconcileVars>>

SpecOverflow == InitOverflow /\ [][NextOverflow]_vars

\* ----------------------------------------------------- lookup specification
InitLookup == CacheInit({IpinfoMaxEntries}) /\ ServiceInit /\ ReconcileIdle

NextLookup ==
  \/ \E r \in Requests, op \in Ops, ip \in ValidIPs \cup InvalidIPs, cf \in LookupEdges :
       StartLookup(r, op, ip, cf)
  \/ \E r \in Requests, o \in Outcomes : FetchSettles(r, o)
  \/ \E r \in Requests, b \in Bodies \cup {Unparsable} : JsonSettles(r, b)
  \/ \E r \in Requests : CachedFetchStore(r)
  \/ \E r \in Requests : FinishLookup(r)
  \/ AdminClear
  \/ \E t \in Instants : Advance(t)

SpecLookup == InitLookup /\ [][NextLookup]_vars

\* ---------------------------------------------------- serving specification
\* the four operations served to requests that differ in their edge metadata
NextServe ==
  \/ \E r \in Requests, op \in Ops, ip \in ValidIPs \cup InvalidIPs, cf \in ServeEdges :
       StartLookup(r, op, ip, cf)
  \/ \E r \in Requests, o \in Outcomes : FetchSettles(r, o)
  \/ \E r \in Requests, b \in ServeBodies : JsonSettles(r, b)
  \/ \E r \in Requests : CachedFetchStore(r)
  \/ \E r \in Requests : FinishLookup(r)
  \/ \E t \in ServeInstants : Advance(t)

SpecServe == InitLookup /\ [][NextServe]_vars

\* --------------------------------------------- reconciliation specification
InitReconcile ==
  /\ CacheInit({IpinfoMaxEntries})
  /\ ServiceInit
  /\ \E i \in ReconcileInputs : edge = i[1] /\ external = i[2]
  /\ view = NoView
  /\ previous = NoView

NextReconcile ==
  \/ ApplyCombineData
  \/ ApplyGeolocation
  \/ ApplySecurity
  \/ ApplyNetwork

SpecReconcile == InitReconcile /\ [][NextReconcile]_vars

\* ------------------------------------ repeated reconciliation specification
\* combineData called again and again on the same inputs while the clock runs
InitRepeat ==
  /\ CacheInit({IpinfoMaxEntries})
  /\ ServiceInit
  /\ \E i \in RepeatInputs : edge = i[1] /\ external = i[2]
  /\ view = NoView
  /\ previous = NoView

NextRepeat ==
  \/ \E id \in RequestIds, startTime \in Instants : RunCombineData(id, startTime)
  \/ \E t \in Instants : Advance(t)

SpecRepeat == InitRepeat /\ [][NextRepeat]_vars

\* ------------------------------------------------ cache-key specification
\* the two operations that share enhancedCache, storing and looking up results
NextKeys ==
  \/ \E op \in Namespaces, ip \in KeyIPs, q \in Qualifiers : CacheResult(op, ip, q)
  \/ \E op \in Namespaces, ip \in KeyIPs, q \in Qualifiers : TryCache(op, ip, q)

SpecKeys == InitLookup /\ [][NextKeys]_vars

\* ---------------------------------------------------- request-log specification
\* the log after LogLengths requests, further requests being recorded, and
\* requests to the analytics endpoints
InitLog ==
  /\ CacheInit({IpinfoMaxEntries})
  /\ ReconcileIdle
  /\ ipinfoCache = <<>>
  /\ enhancedCache = <<>>
  /\ reqs = [r \in Requests |-> IdleReq]
  /\ outbound = [ip \in ValidIPs |-> 0]
  /\ \E n \in LogLengths : analyticsData = LogAfter(n)
  /\ started = 0
  /\ returned = NoReturn

NextLog ==
  \/ \E op \in RecordedOps : RecordAnalytics("8.8.8.8", op, 200)
  \/ \E m \in Methods, p \in AnalyticsPaths, q \in NoQuery : AnalyticsRequest(m, p, q)
  \/ \E q \in Queries : AnalyticsRequest("GET", <<"analytics", "recent">>, q)

SpecLog == InitLog /\ [][NextLog]_vars

\* ------------------------------------------------------- worker specification
\* requests to the worker: the documentation, the caller's own IP, the analytics
\* endpoints, unknown paths; and the lookups the own-IP requests start
NextWorker ==
  \/ \E r \in Requests, p \in OwnIPPaths, q \in NoQuery, ip \in ClientIPs, cf \in LookupEdges :
       WorkerFetch(r, "GET", p, q, ip, cf)
  \/ \E m \in Methods, p \in WorkerPaths, q \in NoQuery, ip \in ValidIPs, cf \in LookupEdges :
       WorkerFetch("r1", m, p, q, ip, cf)
  \/ \E r \in Requests, o \in WorkerOutcomes : FetchSettles(r, o)
  \/ \E r \in Requests, b \in WorkerBodies : JsonSettles(r, b)
  \/ \E r \in Requests : CachedFetchStore(r)
  \/ \E r \in Requests : FinishLookup(r)

SpecWorker == InitLookup /\ [][NextWorker]_vars

\* ------------------------------------------------------------------ claims
\* the data model's liveness of an entry at time t
Live(e, t) == t - e.timestamp <= e.ttl

\* C1 as stated: a get of a key whose entry was stored at storedAt with ttl returns
\* the stored value at every time now < storedAt + ttl and absent at every time
\* now >= storedAt + ttl.
C1_GetUntilTtlExclusive ==
  [][(last'.op = "get" /\ MapHas(cache, last'.key)) =>
       LET e == MapGet(cache, last'.key)
       IN /\ (now < e.timestamp + e.ttl => last'.ret = e.data)
          /\ (now >= e.timestamp + e.ttl => last'.ret = Null)]_vars

\* C1 amended: a get of a key whose entry was stored at storedAt with ttl returns
\* the stored value at every time now <= storedAt + ttl and absent at every time
\* now > storedAt + ttl, for every ttl >= 0.
C1_GetUntilTtlInclusive ==
  [][(last'.op = "get" /\ MapHas(cache, last'.key)) =>
       LET e == MapGet(cache, last'.key)
       IN /\ (now <= e.timestamp + e.ttl => last'.ret = e.data)
          /\ (now > e.timestamp + e.ttl => last'.ret = Null)]_vars

\* C1 witness: a get at exactly storedAt + ttl, some time after the set, returned the value.
C1_Witness ==
  /\ last.op = "get"
  /\ last.ret # Null
  /\ MapHas(cache, last.key)
  /\ LET e == MapGet(cache, last.key)
     IN now = e.timestamp + e.ttl /\ e.ttl > 0 /\ last.ret = e.data

\* C2: get evicts lazily. A get of a live entry returns its value and changes
\* nothing; a get of an entry that is not live removes exactly that entry (size
\* drops by one, the others are unchanged) and returns absent; the passing of time
\* removes nothing, and an expired entry leaves the store only by a get of its
\* key, a set that runs cleanup, a delete of its key or a clear.
C2_LazyEviction ==
  [][/\ (last'.op = "get" =>
          LET k == last'.key
          IN IF ~MapHas(cache, k)
               THEN cache' = cache /\ last'.ret = Null
             ELSE IF Live(MapGet(cache, k), now)
               THEN cache' = cache /\ last'.ret = MapGet(cache, k).data
             ELSE /\ ~MapHas(cache', k)
                  /\ StatsSize(cache') = StatsSize(cache) - 1
                  /\ \A j \in MapKeys(cache) \ {k} :
                       MapHas(cache', j) /\ MapGet(cache', j) = MapGet(cache, j)
                  /\ last'.ret = Null)
     /\ (last'.op = "tick" => cache' = cache /\ StatsSize(cache') = StatsSize(cache))
     /\ \A k \in MapKeys(cache) :
          (~Live(MapGet(cache, k), now) /\ ~MapHas(cache', k)) =>
            \/ last'.op = "get" /\ last'.key = k
            \/ last'.op = "set" /\ last'.full
            \/ last'.op = "delete" /\ last'.key = k
            \/ last'.op = "clear"]_vars

\* C2 witness: a get has just removed the expired entry of its key while another
\* expired entry, not read, is still stored and counted.
C2_Witness ==
  /\ last.op = "get"
  /\ last.old # Null
  /\ last.ret = Null
  /\ ~MapHas(cache, last.key)
  /\ StatsSize(cache) >= 1
  /\ \E i \in 1..Len(cache) : ~Live(cache[i], now)

\* C3 as stated: the number of stored entries never exceeds capacity + 1, and
\* after a set that found the cache at or above capacity the number of stored
\* entries is at most capacity, for every capacity >= 1.
C3_CapacityRestored ==
  /\ StatsSize(cache) <= maxEntries + 1
  /\ (last.op = "set" /\ last.full) => StatsSize(cache) <= maxEntries

\* C4 as stated: a set that finds the store full removes every expired entry, and,
\* only if the remaining (live) entries still reach capacity, the oldest-stored 20%
\* of those remaining entries, every survivor stored no earlier than every entry
\* evicted; a set that finds room removes or changes no entry but its own key's.
C4_EvictOldestFifthOfRemaining ==
  [][last'.op = "set" =>
       LET k == last'.key
           expired == {j \in MapKeys(cache) : ~Live(MapGet(cache, j), now)}
           remaining == MapKeys(cache) \ expired
           evictedLive == last'.evicted \ expired
       IN IF last'.full
            THEN /\ expired \subseteq last'.evicted
                 /\ Cardinality(evictedLive) =
                      IF Cardinality(remaining) >= maxEntries
                        THEN Cardinality(remaining) \div 5 ELSE 0
                 /\ \A a \in evictedLive, b \in remaining \ evictedLive :
                      MapGet(cache, a).timestamp <= MapGet(cache, b).timestamp
            ELSE /\ last'.evicted = {}
                 /\ \A j \in MapKeys(cache) \ {k} :
                      MapHas(cache', j) /\ MapGet(cache', j) = MapGet(cache, j)]_vars

\* C5: set on a key that already holds an entry replaces the whole entry: the
\* store holds exactly one entry for the key, made of the new value, the time of
\* this set and the new ttl, and what a get of the key returns is decided by that
\* entry alone.
C5_SetReplacesWholeEntry ==
  [][/\ (last'.op = "set" =>
          /\ Cardinality({i \in 1..Len(cache') : cache'[i].key = last'.key}) = 1
          /\ MapGet(cache', last'.key) =
               [key |-> last'.key, data |-> last'.data,
                timestamp |-> now, ttl |-> last'.ttl])
     /\ ((last'.op = "get" /\ MapHas(cache, last'.key)) =>
          LET e == MapGet(cache, last'.key)
          IN last'.ret = IF Live(e, now) THEN e.data ELSE Null)]_vars

\* C5 witness: a set has just replaced an entry holding another value, stored
\* earlier with another ttl.
C5_Witness ==
  /\ last.op = "set"
  /\ last.old # Null
  /\ last.old # last.data
  /\ now > 0
  /\ last.ttl = 1
  /\ MapGet(cache, last.key).data = last.data

\* C6: the cache is not an LRU. In the run that performs the reads of live
\* entries and in the run that leaves them out, every set that finds the store
\* full evicts the same keys, and the two stores stay equal.
C6_ReadsDoNotChangeEviction ==
  /\ (last.op = "set" /\ last.full) => last.evicted = last.evictedNoReads
  /\ cacheNoReads = cache

\* C6 witness: a full store has just evicted a live entry that the operation
\* before had read.
C6_Witness ==
  /\ last.op = "set"
  /\ last.full
  /\ last.prevRead # ""
  /\ last.prevRead \in last.evicted
  /\ last.prevRead # last.key
  /\ ~MapHas(cache, last.prevRead)

\* the lookup-cache key of an ip, and whether the lookup cache holds a live entry,
\* or a live null entry, for it
IpinfoKey(ip) == GenerateCacheKey("ipinfo", ip, "")

HoldsLive(ip) ==
  MapHas(ipinfoCache, IpinfoKey(ip)) /\ Live(MapGet(ipinfoCache, IpinfoKey(ip)), now)

HoldsLiveNull(ip) == HoldsLive(ip) /\ MapGet(ipinfoCache, IpinfoKey(ip)).data = Null

\* request r passes from idle into cachedFetch in this step
EntersCachedFetch(r) == reqs[r].pc = "idle" /\ reqs'[r].pc \in {"fetch", "resume"}

InFlight(r) == reqs[r].pc \in {"fetch", "json", "store"}

\* C7 as stated: when the lookup cache holds a live entry storing null for the
\* key, the next cachedFetch for that key returns null without invoking the fetch
\* function (no outbound call is issued).
C7_CachedNullServed ==
  [][\A r \in Requests :
       (EntersCachedFetch(r) /\ HoldsLiveNull(reqs'[r].ip)) =>
         /\ outbound' = outbound
         /\ reqs'[r].pc = "resume"
         /\ reqs'[r].data = Null]_vars

\* C8 as stated: a lookup that starts when no other is in progress, for an ip whose
\* lookup result an earlier lookup stored within the lookup TTL (the entry was
\* neither cleared nor evicted), issues no outbound call: the two lookups issue
\* exactly the one call of the first.
C8_SecondLookupFromCache ==
  [][(started' = started + 1 /\ \A q \in Requests : reqs[q].pc = "idle") =>
       \A ip \in ValidIPs :
         IF HoldsLive(ip)
           THEN outbound'[ip] = outbound[ip]
           ELSE outbound'[ip] <= outbound[ip] + 1]_vars

\* C9: there is no single-flight. A cachedFetch that misses while another
\* cachedFetch for the same key is still in flight invokes the fetch function
\* itself (one more outbound call) and does not wait for the other; every caller
\* in flight has issued a call of its own.
C9_NoSingleFlight ==
  [][\A r \in Requests :
       (/\ EntersCachedFetch(r)
        /\ ~(HoldsLive(reqs'[r].ip) /\ ~HoldsLiveNull(reqs'[r].ip))
        /\ \E q \in Requests \ {r} : InFlight(q) /\ reqs[q].ip = reqs'[r].ip) =>
         /\ reqs'[r].pc = "fetch"
         /\ outbound'[reqs'[r].ip] = outbound[reqs'[r].ip] + 1
         /\ Cardinality({q \in Requests : reqs'[q].pc \in {"fetch", "json", "store"}
                                           /\ reqs'[q].ip = reqs'[r].ip})
              <= outbound'[reqs'[r].ip]]_vars

\* C9 witness: two callers for the same uncached key are both in flight, and two
\* outbound calls have been issued.
C9_Witness ==
  /\ InFlight("r1") /\ InFlight("r2")
  /\ reqs["r1"].ip = reqs["r2"].ip
  /\ ~MapHas(ipinfoCache, IpinfoKey(reqs["r1"].ip))
  /\ outbound[reqs["r1"].ip] = 2

\* C10: fetchIPInfoData never throws, and returns null on a transport error, on
\* a response that is not ok and on a body that does not parse, and the parsed
\* body on success.
C10_LookupClientTotal ==
  \A r \in Requests :
    /\ ~reqs[r].threw
    /\ (reqs[r].pc \in {"store", "resume"} /\ ~reqs[r].hit) =>
         reqs[r].data =
           IF reqs[r].outcome \in {"error", "notok"} THEN Null
           ELSE IF reqs[r].body = Unparsable THEN Null
           ELSE reqs[r].body

\* C10 witness: a response that was ok but whose body did not parse has been
\* turned into null and handed to cachedFetch.
C10_Witness ==
  \E r \in Requests :
    /\ reqs[r].pc = "store"
    /\ reqs[r].outcome = "ok"
    /\ reqs[r].body = Unparsable
    /\ reqs[r].data = Null

\* request r returns in this step, having awaited the lookup
Finishes(r) == reqs[r].pc = "resume" /\ reqs'[r].pc = "idle"

\* an operation is called in this step, and returns in it without awaiting anything
Starts == started' = started + 1

ReturnsAtOnce == Starts /\ reqs' = reqs

\* the ip an operation is called with in this step
StartedIp ==
  IF reqs' = reqs THEN returned'.ip
  ELSE reqs'[CHOOSE r \in Requests : reqs'[r] # reqs[r]].ip

LastRecord(data) == data[Len(data)]

\* C11: when the lookup of a valid ip fails (transport error, or a response that
\* is not ok), getEnhancedIPInfo returns a record and no error: sources.ipinfo is
\* false, the location and network fields are those of the edge metadata or the
\* defaults, no privacy flag is set, threatLevel is what the edge bot score
\* alone gives, and the one analytics record of the call has status 200.
C11_FailedLookupStillServed ==
  [][\A r \in Requests :
       (Finishes(r) /\ reqs[r].op = "enhanced" /\ reqs[r].outcome \in {"error", "notok"}) =>
         LET cf == reqs[r].cf
             b == returned'.body
         IN /\ returned'.path = "computed"
            /\ ~Has(b, "error")
            /\ b.sources.ipinfo = FALSE
            /\ b.location.country = StrOr(cf, "country")
            /\ b.location.city = StrOr(cf, "city")
            /\ b.location.region = Or(StrOr(cf, "region"), StrOr(cf, "regionCode"))
            /\ b.location.timezone = StrOr(cf, "timezone")
            /\ ~Has(cf, "latitude") => b.location.coordinates = [latitude |-> 0, longitude |-> 0]
            /\ b.network.asn = (IF Has(cf, "asn") THEN cf.asn ELSE 0)
            /\ b.network.organization = StrOr(cf, "asOrganization")
            /\ b.network.type = "unknown"
            /\ ~Has(b.network, "isp")
            /\ ~b.security.vpn /\ ~b.security.proxy /\ ~b.security.tor /\ ~b.security.hosting
            /\ b.security.threatLevel =
                 (IF Has(cf, "botManagement") /\ cf.botManagement.score < 30
                    THEN "medium" ELSE "low")
            /\ Len(analyticsData') = Len(analyticsData) + 1
            /\ LastRecord(analyticsData') = AnalyticsRecord(reqs[r].ip, "enhanced", 200)]_vars

\* C11 witness: a record built from edge metadata alone, with a bot score of 20,
\* has been returned for an ip whose lookup has just failed.
C11_Witness ==
  /\ returned.op = "enhanced"
  /\ returned.path = "computed"
  /\ returned.cf = EdgeLHR
  /\ HoldsLiveNull(returned.ip)
  /\ returned.body.sources.ipinfo = FALSE
  /\ returned.body.security.threatLevel = "medium"
  /\ LastRecord(analyticsData).status = 200

\* C12: validation failure stops processing at once. A call of any of the four
\* operations with an ip that validateIP rejects returns in the same step with an
\* INVALID_IP error response, issues no outbound lookup, and reads and writes
\* neither ipinfoCache nor enhancedCache: both caches are left as they were.
C12_ValidationStopsProcessing ==
  [][(Starts /\ StartedIp \in InvalidIPs) =>
       /\ ReturnsAtOnce
       /\ returned'.op \in Ops
       /\ returned'.path = "invalid"
       /\ returned'.body = ErrorResponse("INVALID_IP")
       /\ outbound' = outbound
       /\ ipinfoCache' = ipinfoCache
       /\ enhancedCache' = enhancedCache]_vars

\* C12 witness: getSecurityInfo has been answered with INVALID_IP for the empty
\* string while both caches held an entry, expired in the case of enhancedCache,
\* which a read would have removed.
C12_Witness ==
  /\ returned.op = "security"
  /\ returned.ip \in InvalidIPs
  /\ returned.body = ErrorResponse("INVALID_IP")
  /\ LastRecord(analyticsData).status = 400
  /\ Len(ipinfoCache) > 0
  /\ \E i \in 1..Len(enhancedCache) : ~Live(enhancedCache[i], now)

\* the status that goes with the path an operation took
StatusOf(path) ==
  CASE path = "invalid" -> 400
    [] path = "hit" -> 200
    [] path = "computed" -> 200
    [] path = "error" -> 500

\* C13 as stated: every invocation of a top-level operation appends exactly one
\* analytics record, on every path, with the status of its outcome: 400 on a
\* validation failure, 200 on a cache hit, 200 on a computed result, 500 on an
\* internal error; no path records zero or two records.
C13_OneRecordPerInvocation ==
  [][IF ReturnsAtOnce \/ \E r \in Requests : Finishes(r)
       THEN /\ Len(analyticsData') = Len(analyticsData) + 1
            /\ SubSeq(analyticsData', 1, Len(analyticsData)) = analyticsData
            /\ LastRecord(analyticsData') =
                 AnalyticsRecord(returned'.ip, returned'.op, StatusOf(returned'.path))
       ELSE analyticsData' = analyticsData]_vars

\* C14 as stated: every record getEnhancedIPInfo returns is built from the edge
\* metadata of the request being served: security.botScore and verifiedBot, the
\* connection block and the edge-supplied location fields are what
\* extractCloudflareData yields for that request, whatever earlier requests for
\* the same ip were served.
C14_BuiltFromCurrentRequest ==
  (returned.op = "enhanced" /\ returned.path \in {"hit", "computed"}) =>
    LET cfData == ExtractCloudflareData(returned.cf)
        bot == IF Has(cfData, "botManagement") THEN cfData.botManagement ELSE EmptyObject
        b == returned.body
    IN /\ Prop("botScore", b.security, "botScore") = Prop("botScore", bot, "score")
       /\ Prop("verifiedBot", b.security, "verifiedBot") = Prop("verifiedBot", bot, "verifiedBot")
       /\ b.connection.edgeLocation = Or(StrOr(cfData, "colo"), "unknown")
       /\ b.connection.datacenter = GetDatacenterLocation(StrOr(cfData, "colo"))
       /\ b.connection.httpProtocol = Or(StrOr(cfData, "httpProtocol"), "unknown")
       /\ Prop("tlsVersion", b.connection, "tlsVersion") = Prop("tlsVersion", cfData, "tlsVersion")
       /\ Prop("tcpRtt", b.connection, "tcpRtt") = Prop("tcpRtt", cfData, "clientTcpRtt")
       /\ b.location.countryCode = StrOr(cfData, "country")

\* the inputs of the reconciliation, as the functions see them
EdgeData == ExtractCloudflareData(edge)

FullRecord == CombineData("8.8.8.8", IpVersion("8.8.8.8"), EdgeData, external)

\* C15 as stated: the focused views classify as the full reconciliation does. For
\* every edge metadata and lookup result, the accuracy and the sources list of
\* getGeolocation are location.accuracy and location.sources of combineData, and
\* the threatLevel and malicious of getSecurityInfo are security.threatLevel and
\* security.malicious of combineData.
C15_ViewsAgreeWithCombineData ==
  /\ view.kind = "geolocation" /\ ~CombineDataThrows(EdgeData, external) =>
       /\ view.result.accuracy = FullRecord.location.accuracy
       /\ view.result.sources = FullRecord.location.sources
  /\ view.kind = "security" /\ ~CombineDataThrows(EdgeData, external) =>
       /\ view.result.threatLevel = FullRecord.security.threatLevel
       /\ view.result.malicious = FullRecord.security.malicious

\* the number of sources that contributed: the edge metadata if it supplied a
\* country, the lookup result if it is not null
Contributed ==
  (IF Has(edge, "country") /\ edge.country # "" THEN 1 ELSE 0)
  + (IF external # Null THEN 1 ELSE 0)

\* C16: in the full reconciliation, location accuracy is "high" exactly when at
\* least two sources contributed and both coordinates are non-zero, "medium"
\* exactly when at least one source contributed and it is not high, and "low"
\* otherwise.
C16_AccuracyBySourcesAndCoordinates ==
  view.kind = "full" /\ view.result # Thrown =>
    LET c == view.result.location.coordinates
        high == Contributed >= 2 /\ c.latitude # 0 /\ c.longitude # 0
    IN view.result.location.accuracy =
         IF high THEN "high" ELSE IF Contributed >= 1 THEN "medium" ELSE "low"

\* C16 witness: two sources contributed, the lookup result naming no country, and
\* the coordinates, taken from the lookup result, are non-zero: accuracy is high.
C16_Witness ==
  /\ view.kind = "full"
  /\ Has(edge, "country")
  /\ ~Has(edge, "latitude")
  /\ external # Null
  /\ ~Has(external, "country")
  /\ view.result.location.coordinates = [latitude |-> 37386, longitude |-> -122084]
  /\ view.result.location.accuracy = "high"

\* C17: malicious is true iff the threat level is "high" or both the tor and the
\* proxy flag are set, in the combined record and in the security view alike,
\* and the two paths yield the same malicious for every bot score (absent or
\* not) and every combination of the vpn, proxy, tor and hosting flags.
C17_MaliciousRule ==
  /\ view.kind = "full" /\ view.result # Thrown =>
       LET sec == view.result.security
       IN sec.malicious <=> (sec.threatLevel = "high" \/ (sec.tor /\ sec.proxy))
  /\ view.kind = "security" =>
       /\ view.result.malicious <=>
            (view.result.threatLevel = "high" \/ (view.result.tor /\ view.result.proxy))
       /\ ~CombineDataThrows(EdgeData, external) =>
            view.result.malicious = FullRecord.security.malicious

\* C17 witness: the combined record of an ip flagged tor and proxy and nothing
\* else, with no bot score, is malicious.
C17_Witness ==
  /\ view.kind = "full"
  /\ ~Has(edge, "botManagement")
  /\ Has(external, "privacy")
  /\ external.privacy = [vpn |-> FALSE, proxy |-> TRUE, tor |-> TRUE, hosting |-> FALSE]
  /\ view.result.security.threatLevel = "high"
  /\ view.result.security.malicious

\* the risk score of the inputs, by the rules of the specification
BotPoints ==
  IF ~Has(edge, "botManagement") THEN 0
  ELSE IF edge.botManagement.score < 30 THEN 3
  ELSE IF edge.botManagement.score < 50 THEN 2
  ELSE IF edge.botManagement.score < 80 THEN 1
  ELSE 0

FlagSet(f) == Has(external, "privacy") /\ external.privacy[f]

FlagPoints ==
  (IF FlagSet("tor") THEN 3 ELSE 0) + (IF FlagSet("vpn") THEN 2 ELSE 0)
  + (IF FlagSet("proxy") THEN 2 ELSE 0) + (IF FlagSet("hosting") THEN 1 ELSE 0)

\* C18: assessThreatLevel adds 3 for a bot score below 30, else 2 below 50, else
\* 1 below 80 (one band at most, nothing for an absent score), 3 for tor, 2 for
\* vpn, 2 for proxy, 1 for hosting, and maps a score of 5 or more to "high", 3
\* or 4 to "medium", less than 3 to "low", for every combination of inputs.
C18_ThreatScoring ==
  view.kind = "security" =>
    view.result.threatLevel =
      IF BotPoints + FlagPoints >= 5 THEN "high"
      ELSE IF BotPoints + FlagPoints >= 3 THEN "medium"
      ELSE "low"

\* C18 witness: a bot score of 0 (3 points) and the hosting flag (1 point) give
\* "medium".
C18_Witness ==
  /\ view.kind = "security"
  /\ Has(edge, "botManagement")
  /\ edge.botManagement.score = 0
  /\ FlagPoints = 1
  /\ view.result.threatLevel = "medium"

\* a bot score of 20 and no privacy flag set
BotTwentyAlone ==
  /\ Has(edge, "botManagement")
  /\ edge.botManagement.score = 20
  /\ FlagPoints = 0

\* C19 as stated: a bot score of 20 with no privacy flag set yields threatLevel
\* "high" on its own.
C19_BotTwentyIsHigh ==
  (view.kind = "security" /\ BotTwentyAlone) => view.result.threatLevel = "high"

\* C19 amended: a bot score of 20 with no privacy flag set contributes 3 and
\* yields threatLevel "medium"; it takes 2 more points to reach "high".
C19_BotTwentyIsMedium ==
  (view.kind \in {"security", "full"} /\ BotTwentyAlone) =>
    /\ view.kind = "security" => view.result.threatLevel = "medium"
    /\ view.kind = "full" => view.result.security.threatLevel = "medium"

\* C19 witness: the security view of a request with bot score 20, the lookup
\* result carrying a privacy block with no flag set.
C19_Witness ==
  /\ view.kind = "security"
  /\ BotTwentyAlone
  /\ Has(external, "privacy")
  /\ view.result.botScore = 20
  /\ view.result.threatLevel = "medium"
  /\ ~view.result.malicious

\* the connection-quality score of the inputs, by the rules of the specification
QualityPoints ==
  (IF ~Has(edge, "httpProtocol") THEN 0
   ELSE IF edge.httpProtocol = "HTTP/3" THEN 3
   ELSE IF edge.httpProtocol = "HTTP/2" THEN 2
   ELSE IF edge.httpProtocol = "HTTP/1.1" THEN 1
   ELSE 0)
  + (IF ~Has(edge, "tlsVersion") THEN 0
     ELSE IF edge.tlsVersion = "TLSv1.3" THEN 2
     ELSE IF edge.tlsVersion = "TLSv1.2" THEN 1
     ELSE 0)
  + (IF ~Has(edge, "clientTcpRtt") THEN 0
     ELSE IF edge.clientTcpRtt < 50 THEN 2
     ELSE IF edge.clientTcpRtt < 100 THEN 1
     ELSE 0)

\* C20 as stated: assessConnectionQuality adds 3 for HTTP/3, 2 for HTTP/2, 1 for
\* HTTP/1.1, 2 for TLSv1.3, 1 for TLSv1.2, 2 for a round-trip time below 50 and
\* else 1 below 100, for every round-trip time supplied, 0 included, and maps a
\* score of 6 or more to "excellent", 4 or more to "good", 2 or more to "fair"
\* and less to "poor".
C20_ConnectionQualityScoring ==
  (view.kind = "network" /\ view.result # Thrown) =>
    view.result.connectionQuality =
      IF QualityPoints >= 6 THEN "excellent"
      ELSE IF QualityPoints >= 4 THEN "good"
      ELSE IF QualityPoints >= 2 THEN "fair"
      ELSE "poor"

\* the record that carries the location fields: location of the combined record,
\* the result itself in the geolocation view
LocationOf == IF view.kind = "full" THEN view.result.location ELSE view.result

\* the value the precedence rule names: the edge metadata's where it has one,
\* else the lookup result's where it has one, else the empty string
Preferred(edgeField, externalField) ==
  IF Has(EdgeData, edgeField) THEN EdgeData[edgeField]
  ELSE IF Has(external, externalField) THEN external[externalField]
  ELSE ""

\* C21: in combineData and in getGeolocation alike, each of country, region,
\* city, timezone and postal code is the edge metadata's value where the edge
\* supplies one, otherwise the lookup result's where it supplies one, otherwise
\* empty (the postal code: absent); a value of the lookup result never replaces
\* one the edge supplies.
C21_EdgeValueFirst ==
  view.kind \in {"full", "geolocation"} /\ view.result # Thrown =>
    /\ \A f \in {"country", "region", "city", "timezone"} : LocationOf[f] = Preferred(f, f)
    /\ IF Preferred("postalCode", "postal") = ""
         THEN ~Has(LocationOf, "postalCode")
         ELSE /\ Has(LocationOf, "postalCode")
              /\ LocationOf.postalCode = Preferred("postalCode", "postal")

\* C21 witness: both sources name a city and only the lookup result names a
\* region and a postal code; the combined record has the edge's city and the
\* lookup result's region and postal code.
C21_Witness ==
  /\ view.kind = "full"
  /\ Has(edge, "city") /\ Has(external, "city")
  /\ ~Has(edge, "region") /\ Has(external, "region")
  /\ ~Has(edge, "postalCode") /\ Has(external, "postal")
  /\ view.result.location.city = "Mountain View"
  /\ view.result.location.region = "Bavaria"
  /\ view.result.location.postalCode = "80331"

\* C22 as stated: the reconciliation never fails. For every edge metadata and
\* every lookup result (null, or an object with any of its fields and nested
\* blocks partially populated), combineData and the focused views return a
\* record and raise nothing.
C22_ReconciliationNeverRaises ==
  view.kind # "none" => view.result # Thrown

\* the fields of the combined record that belong to the call, not to its inputs
PerCall == {"requestId", "timestamp", "processingTime"}

WithoutPerCall(r) == [f \in DOMAIN r \ PerCall |-> r[f]]

\* two successive runs of combineData on the same inputs, both returning a record
RanTwice ==
  /\ view.kind = "full" /\ view.result # Thrown
  /\ previous.kind = "full" /\ previous.result # Thrown

BuiltUnder(namespace, data) == (namespace = "enhanced") <=> Has(data, "location")

\* C24: cache keys do not collide across namespaces. Whatever the IPs (IPv4 or
\* IPv6) and qualifiers, a key of one namespace is never the key of an entry
\* stored under the other, so what enhancedCache returns to getEnhancedIPInfo
\* was stored by getEnhancedIPInfo and what it returns to getGeolocation was
\* stored by getGeolocation.
C24_NamespacesDoNotCollide ==
  /\ \A i \in 1..Len(enhancedCache), n \in Namespaces, ip \in KeyIPs, q \in Qualifiers :
       enhancedCache[i].key = GenerateCacheKey(n, ip, q) =>
         BuiltUnder(n, enhancedCache[i].data)
  /\ returned.path = "hit" => BuiltUnder(returned.op, returned.body)

\* C24 witness: with the results of both operations cached for one IPv6
\* address, getGeolocation's lookup is answered with the geolocation view.
C24_Witness ==
  /\ Len(enhancedCache) = 2
  /\ \E ip \in IPv6s :
       /\ MapHas(enhancedCache, GenerateCacheKey("enhanced", ip, ""))
       /\ MapHas(enhancedCache, GenerateCacheKey("geolocation", ip, ""))
       /\ returned.ip = ip
  /\ returned.op = "geolocation"
  /\ returned.path = "hit"
  /\ ~Has(returned.body, "location")

\* the request ids of a list of records go down from one record to the next
NewestFirst(records) ==
  \A i \in 1..(Len(records) - 1) : records[i].requestId > records[i + 1].requestId

\* C27 as stated: the recent-requests endpoint returns at most 200 records, the
\* most recent first, whatever the limit query parameter is (absent, zero,
\* negative, not a number, above 200).
C27_RecentAtMostTwoHundred ==
  returned.path = "recent" =>
    /\ Len(returned.body.recentRequests) <= 200
    /\ NewestFirst(returned.body.recentRequests)

\* a step that records a request, and a step after which the last answer is
\* that of the reset
RecordsOne == started' = started + 1

Resets == returned'.path = "clear"

\* C28: the request log holds at most 1000 records, and they are the most
\* recently recorded ones in recording order. Recording a request appends it and,
\* if that makes 1001 records, drops the oldest one; a reset empties the log;
\* nothing else changes it.
C28_LogKeepsMostRecent ==
  [][/\ Len(analyticsData') <= AnalyticsMaxEntries
     /\ RecordsOne =>
          LET m == Len(analyticsData)
              n == Len(analyticsData')
          IN /\ n = (IF m < AnalyticsMaxEntries THEN m + 1 ELSE AnalyticsMaxEntries)
             /\ analyticsData'[n].requestId = AnalyticsMaxEntries + started'
             /\ \A i \in 1..(n - 1) : analyticsData'[i] = analyticsData[m + 1 - n + i]
     /\ ~RecordsOne =>
          \/ analyticsData' = analyticsData
          \/ Resets /\ analyticsData' = <<>>]_vars

\* C28 witness: the log held 1000 records and two more requests were recorded;
\* it holds 1000 records, the third to the 1002nd.
C28_Witness ==
  /\ Len(analyticsData) = AnalyticsMaxEntries
  /\ started = 2
  /\ analyticsData[1].requestId = 3
  /\ analyticsData[AnalyticsMaxEntries].requestId = AnalyticsMaxEntries + 2

\* the last answer is one to a GET request for "/"
AnswersGetRoot ==
  /\ Has(returned, "request")
  /\ returned.request = [method |-> "GET", pathname |-> <<>>]

\* C26 as stated: a GET request for the root path "/" is served by the enhanced
\* own-IP handler, not by any other handler of the worker.
C26_RootServesOwnIP == AnswersGetRoot => returned.op = "enhancedOwnIP"

\* the step answers a request (no lookup moves in it), with the reset
AnswersReset == returned'.path = "clear" /\ reqs' = reqs /\ started' = started

\* the step answers a request for a path ending in /analytics/clear whose method
\* is not POST
AnswersOtherMethod ==
  /\ Has(returned', "request")
  /\ EndsWith(returned'.request.pathname, <<"analytics", "clear">>)
  /\ returned'.request.method # "POST"
  /\ reqs' = reqs /\ started' = started

ResetLeavesAllEmpty ==
  AnswersReset =>
    /\ StatsSize(enhancedCache') = 0
    /\ StatsSize(ipinfoCache') = 0
    /\ analyticsData' = <<>>

OtherMethodChangesNothing ==
  AnswersOtherMethod => UNCHANGED <<enhancedCache, ipinfoCache, analyticsData>>

IssuesOutboundCall == outbound'[StartedIp] = outbound[StartedIp] + 1

\* C25 as stated: after the reset both caches and the request log are empty, so
\* the next lookup (the first one called after the reset was answered), for any
\* IP, misses the caches and issues an outbound call; a request for the reset
\* path with another method changes neither cache nor the log.
C25_NextLookupAfterResetMisses ==
  [][/\ ResetLeavesAllEmpty
     /\ (returned.path = "clear" /\ Starts /\ ValidateIP(StartedIp)) => IssuesOutboundCall
     /\ OtherMethodChangesNothing]_vars

\* C25, amended: after the reset both caches and the request log are empty, and
\* a lookup called while both caches are still empty issues an outbound call (a
\* lookup that was in flight at the reset stores its result when its fetch
\* completes, and lookups called after that are served from it); a request for
\* the reset path with another method changes neither cache nor the log.
C25_LookupOnEmptyCachesMisses ==
  [][/\ ResetLeavesAllEmpty
     /\ (/\ Starts /\ ValidateIP(StartedIp)
         /\ enhancedCache = <<>> /\ ipinfoCache = <<>>) => IssuesOutboundCall
     /\ OtherMethodChangesNothing]_vars

\* C25 witness: a lookup was served and cached, the reset emptied both caches
\* and the log, and the next lookup for the same IP is waiting for its own
\* outbound call.
C25_Witness ==
  /\ returned.path = "clear"
  /\ enhancedCache = <<>> /\ ipinfoCache = <<>> /\ analyticsData = <<>>
  /\ started = 2
  /\ outbound["8.8.8.8"] = 2
  /\ \E r \in Requests :
       /\ reqs[r].pc = "fetch"
       /\ \A q \in Requests \ {r} : reqs[q].pc = "idle"

\* request r runs "cache.set(cacheKey, data, ttl)" in this step: its fetch has
\* completed
Stores(r) == reqs[r].pc = "store" /\ reqs'[r].pc = "resume"

\* C29: when cachedFetch calls for one key overlap and all miss, each caller
\* keeps the result of its own fetch, whatever the others store, and each
\* completion overwrites the entry with the completing call's result and a
\* timestamp of that moment; so the entry left behind is that of the fetch that
\* completed last, whichever call started first.
C29_LastCompletionWins ==
  [][\A r \in Requests :
       Stores(r) =>
         LET e == MapGet(ipinfoCache', IpinfoKey(reqs[r].ip))
         IN /\ MapHas(ipinfoCache', IpinfoKey(reqs[r].ip))
            /\ e.data = reqs[r].data
            /\ e.timestamp = now
            /\ e.ttl = IPINFO_DATA
            /\ \A q \in Requests : reqs'[q].data = reqs[q].data]_vars

\* C29 witness: two calls for the same key both missed and fetched, one obtained
\* body A and the other body B; both have stored, each still holds its own
\* result, and the entry holds B with the timestamp of the later store.
C29_Witness ==
  /\ outbound["8.8.8.8"] = 2
  /\ reqs["r1"].pc = "resume" /\ ~reqs["r1"].hit
  /\ reqs["r2"].pc = "resume" /\ ~reqs["r2"].hit
  /\ reqs["r1"].ip = "8.8.8.8" /\ reqs["r2"].ip = "8.8.8.8"
  /\ reqs["r1"].data = [body |-> "A"]
  /\ reqs["r2"].data = [body |-> "B"]
  /\ now > 0
  /\ MapHas(ipinfoCache, IpinfoKey("8.8.8.8"))
  /\ MapGet(ipinfoCache, IpinfoKey("8.8.8.8")).data = [body |-> "B"]
  /\ MapGet(ipinfoCache, IpinfoKey("8.8.8.8")).timestamp = now

\* C30 as stated: in the security view, riskFactors contains "Low bot management
\* score" exactly when the bot score is present and below 50, which is exactly
\* when the score adds 2 or 3 to the risk score of assessThreatLevel.
C30_LowBotScoreFactor ==
  view.kind = "security" =>
    LET listed == \E i \in 1..Len(view.result.riskFactors) :
                    view.result.riskFactors[i] = "Low bot management score"
    IN /\ listed <=> (Has(edge, "botManagement") /\ edge.botManagement.score < 50)
       /\ listed <=> (BotPoints \in {2, 3})

====
